---- MODULE Spec2Model ----
(***************************************************************************)
(* GoCafeNG (Go9jaJobs): the ingestion pipeline.                           *)
(*                                                                         *)
(*  - the persistence gateway SaveJobsToDB (internal/db/jobs.go), modelled *)
(*    statement by statement: one transaction per call, the three filters, *)
(*    the logo enrichment, the upsert keyed on id, commit or rollback;     *)
(*  - the scheduler and its persisted run-state (internal/services/jobs.go *)
(*    and the job_schedule_info functions of internal/db/jobs.go).         *)
(*                                                                         *)
(* Strings that the code lower-cases or searches are sequences of          *)
(* one-character strings, so that strings.ToLower, strings.Contains,       *)
(* HasPrefix and HasSuffix are computed and not assumed.                   *)
(***************************************************************************)
EXTENDS Integers, Sequences, FiniteSets, TLC

(***************************************************************************)
(* Bounds of the model.                                                    *)
(***************************************************************************)
\* longest input batch handed to SaveJobsToDB
MaxBatch == 2
\* number of calls of SaveJobsToDB in a behaviour of the gateway (each call
\* begins its transaction one clock unit after the previous one)
MaxTx == 2
\* number of times the wall clock is advanced in a behaviour of the scheduler
MaxTicks == 3
\* number of calls of GetOrFetchCompanyDetails in a behaviour of the company
\* details cache
MaxLookups == 3
\* number of HTTP requests served in a behaviour of the API
MaxRequests == 2
\* number of items in a vendor response
MaxItems == 2
\* calls of the HTMLCache
MaxCalls == 4
\* invocations of EnhanceJobDescriptions
MaxInvocations == 2

(***************************************************************************)
(* Strings.                                                                *)
(***************************************************************************)
UpperChars == <<"A","B","C","D","E","F","G","H","I","J","K","L","M",
                "N","O","P","Q","R","S","T","U","V","W","X","Y","Z">>
LowerChars == <<"a","b","c","d","e","f","g","h","i","j","k","l","m",
                "n","o","p","q","r","s","t","u","v","w","x","y","z">>

\* unicode.ToLower on one character
LowerChar(ch) ==
    IF \E i \in 1..26 : UpperChars[i] = ch
    THEN LowerChars[CHOOSE i \in 1..26 : UpperChars[i] = ch]
    ELSE ch

\* strings.ToLower
ToLower(s) == [i \in 1..Len(s) |-> LowerChar(s[i])]

\* strings.Contains
Contains(s, sub) ==
    \E i \in 1..(Len(s) - Len(sub) + 1) : SubSeq(s, i, i + Len(sub) - 1) = sub

\* strings.HasPrefix
HasPrefix(s, p) == Len(s) >= Len(p) /\ SubSeq(s, 1, Len(p)) = p

\* strings.HasSuffix
HasSuffix(s, p) == Len(s) >= Len(p) /\ SubSeq(s, Len(s) - Len(p) + 1, Len(s)) = p

(***************************************************************************)
(* The filters of internal/db/jobs.go.                                     *)
(***************************************************************************)
blockedCompanies == { <<"c","a","n","o","n","i","c","a","l">>,
                      <<"c","r","o","s","s","o","v","e","r">> }

\* a blocklist that matches whole names only
IsBlockedCompanyExact(companyName) == ToLower(companyName) \in blockedCompanies

IsBlockedCompany(companyName) ==
    LET companyLower == ToLower(companyName)
    IN  \E blocked \in blockedCompanies : Contains(companyLower, blocked)

goPrefixes == { <<" ","g","o"," ">>, <<" ","g","o",",">>, <<" ","g","o",".">>,
                <<" ","g","o",":">>, <<" ","g","o",";">>, <<" ","g","o","-">>,
                <<" ","g","o","/">>, <<" ","g","o",")">>, <<" ","g","o","]">>,
                <<" ","g","o","}">>, <<"(","g","o"," ">>, <<"[","g","o"," ">>,
                <<"{","g","o"," ">> }
goSuffixes == { <<" ","g","o">>, <<",","g","o"," ">>, <<".","g","o"," ">>,
                <<":","g","o"," ">>, <<";","g","o"," ">>, <<"-","g","o"," ">>,
                <<"/","g","o"," ">>, <<"(","g","o",")">>, <<"[","g","o","]">>,
                <<"{","g","o","}">> }
goStandalone == { <<"(","g","o",")">>, <<"[","g","o","]">>, <<"{","g","o","}">>,
                  <<" ","g","o"," ">> }
golang == <<"g","o","l","a","n","g">>

\* a relevance test that looks for golang in the text as it is written
IsGoRelatedJobCaseSensitive(job) ==
    LET title == ToLower(job.title)
        description == ToLower(job.description)
    IN  \/ \E pattern \in goPrefixes \cup goSuffixes \cup goStandalone :
              Contains(title, pattern) \/ Contains(description, pattern)
        \/ HasPrefix(title, <<"g","o"," ">>)
        \/ HasSuffix(title, <<" ","g","o">>)
        \/ Contains(job.title, golang)
        \/ Contains(job.description, golang)

IsGoRelatedJob(job) ==
    LET title == ToLower(job.title)
        description == ToLower(job.description)
    IN  \/ \E pattern \in goPrefixes :
              Contains(title, pattern) \/ Contains(description, pattern)
        \/ \E pattern \in goSuffixes :
              Contains(title, pattern) \/ Contains(description, pattern)
        \/ \E pattern \in goStandalone :
              Contains(title, pattern) \/ Contains(description, pattern)
        \/ HasPrefix(title, <<"g","o"," ">>)
        \/ HasSuffix(title, <<" ","g","o">>)
        \/ Contains(title, golang)
        \/ Contains(description, golang)

\* EXTRACT(YEAR FROM ts), EXTRACT(MONTH FROM ts)
Year(ts) == ts.y
Month(ts) == ts.m

\* a WHERE clause that compares title and company as they are
SameNaturalKeyExact(row, job) ==
    /\ row.title = job.title
    /\ row.company = job.company
    /\ Year(row.posted_at) = Year(job.posted_at)
    /\ Month(row.posted_at) = Month(job.posted_at)

\* the WHERE clause of the duplicate query, for one stored row
SameNaturalKey(row, job) ==
    /\ ToLower(row.title) = ToLower(job.title)
    /\ ToLower(row.company) = ToLower(job.company)
    /\ Year(row.posted_at) = Year(job.posted_at)
    /\ Month(row.posted_at) = Month(job.posted_at)

\* a duplicate query that leaves out the row of the record's own id
IsDuplicateJobOtherId(table, job) ==
    Cardinality({ i \in DOMAIN table :
                    i # job.id /\ SameNaturalKey(table[i], job) }) > 0

\* SELECT COUNT(*) ... > 0, run on the pool connection: it reads the
\* committed table, never the caller's open transaction
IsDuplicateJob(table, job) ==
    Cardinality({ i \in DOMAIN table : SameNaturalKey(table[i], job) }) > 0


(***************************************************************************)
(* Input records (models.Job).  Only the columns the gateway reads or that *)
(* the upsert treats differently are kept: id, the natural key (title,     *)
(* company, posted_at), description, company_logo (overwritten on          *)
(* conflict) and company_url (inserted, but not in the DO UPDATE list).    *)
(***************************************************************************)
GoDev == <<"G","o"," ","D","e","v">>
goDevLower == <<"g","o"," ","d","e","v">>
Java == <<"J","a","v","a">>
Acme == <<"A","c","m","e">>
AcmeUpper == <<"A","C","M","E">>
Canonical == <<"C","a","n","o","n","i","c","a","l">>
NoText == << >>

Mar15 == [y |-> 2024, m |-> 3, d |-> 15]
Mar02 == [y |-> 2024, m |-> 3, d |-> 2]
Apr01 == [y |-> 2024, m |-> 4, d |-> 1]

Job(id, title, company, posted, url) ==
    [id |-> id, title |-> title, company |-> company, posted_at |-> posted,
     description |-> NoText, company_url |-> url, company_logo |-> ""]

\* a Go job
J1 == Job("a", GoDev, Acme, Mar15, "acme.com")
\* the same posting under another id and another letter case
J2 == Job("b", goDevLower, AcmeUpper, Mar02, "")
\* the id of J1 again, posted in another month, with another company_url
J3 == Job("a", GoDev, Acme, Apr01, "acme.io")
\* not a Go job
J4 == Job("c", Java, Acme, Mar15, "")
\* a Go job of a blocked company
J5 == Job("d", GoDev, Canonical, Mar15, "")

JobPool == {J1, J2, J3, J4, J5}

\* the input batches: every sequence of 0..MaxBatch records of the pool
Batches == UNION { [1..n -> JobPool] : n \in 0..MaxBatch }

\* config.LoadConfig: MODE and API_TOKEN_LOGO of the environment
Configs == [Mode : {"dev", "production"}, BrandFetchAPIKey : {"", "key"}]

\* what FetchCompanyLogo can return: a logo URL, or "" on any failure
LogoResults == {"", "logo.png"}

Callers == {"c1", "c2"}

NoErr == ""
ErrBegin == "begin failed"
ErrPrepare == "prepare failed"
ErrExec == "exec failed"
ErrCommit == "commit failed"
ErrCanceled == "context canceled"

VARIABLES
    jobs,       \* the committed jobs table: id -> row
    now,        \* the wall clock, in minutes (CURRENT_TIMESTAMP, time.Now())
    cfg,        \* the environment config.LoadConfig reads
    call,       \* per caller: the state of its SaveJobsToDB call
    schedule,   \* the job_schedule_info table: a set of rows
    up,         \* a scheduler is started (StartJobScheduler .. StopJobScheduler)
    cron,       \* the gocron jobs of the started scheduler: source -> job
    last,       \* the latest run of a scheduled job: what FetchAndSave* saw
    startup,    \* now and the loaded next-run times of the running StartJobScheduler
    shutdown,   \* what job.NextRun() was at the latest StopJobScheduler
    ticks,      \* how many times the clock was advanced
    details,    \* the company_details table: a set of rows
    lk,         \* per caller: the state of its GetOrFetchCompanyDetails call
    lookups,    \* how many calls of GetOrFetchCompanyDetails were made
    signed,     \* the APIKeyAuthMiddleware in use validates timestamp and HMAC
    served,     \* how many HTTP requests were served
    resp,       \* the latest HTTP request and the response to it
    cycles,     \* the goroutines SyncJobs started, in order
    probe,      \* the latest call of a pure function: its input and output
    html,       \* the HTMLCache: its items, and what its calls did
    gem         \* the state of the EnhanceJobDescriptions call

saveVars == <<jobs, now, cfg, call>>
schedVars == <<schedule, up, cron, last, startup, shutdown, ticks>>
companyVars == <<details, lk, lookups>>
apiVars == <<signed, served, resp, cycles>>
miscVars == <<html, gem>>
vars == <<jobs, now, cfg, call, schedule, up, cron, last, startup, shutdown, ticks,
         details, lk, lookups, signed, served, resp, cycles, probe, html, gem>>

\* a caller that is not inside SaveJobsToDB.  saved (the positions of the
\* batch that were upserted), dupErrs (the duplicate queries that failed),
\* cancelIdx and cancelCount (position and count when the context was
\* cancelled), snap (the table when the call began), again (the call
\* repeats the batch of the caller's previous call, which succeeded) and
\* prevSaved (the positions that call upserted) and ops (per record of the
\* batch, in order, the calls the loop body made for it) only record what
\* happened; the code's own variables are the others.
Idle == [pc |-> "idle", batch |-> << >>, idx |-> 0, tx |-> << >>, txTime |-> 0,
         count |-> 0, skippedDuplicates |-> 0, skippedBlockedCompanies |-> 0,
         skippedNonGoJobs |-> 0, ctxDone |-> FALSE, err |-> NoErr,
         saved |-> {}, dupErrs |-> 0, cancelIdx |-> -1, cancelCount |-> -1,
         snap |-> << >>, again |-> FALSE, prevSaved |-> {}, ops |-> << >>]

(***************************************************************************)
(* The transaction.  tx is the set of rows the open transaction has        *)
(* written (id -> row); a statement of the transaction sees the committed  *)
(* table overlaid with them.                                               *)
(***************************************************************************)
Overlay(table, tx) ==
    [i \in DOMAIN table \cup DOMAIN tx |-> IF i \in DOMAIN tx THEN tx[i] ELSE table[i]]

\* INSERT ... VALUES: created_at and updated_at default to CURRENT_TIMESTAMP
InsertedRow(job, ts) ==
    [id |-> job.id, title |-> job.title, company |-> job.company,
     posted_at |-> job.posted_at, description |-> job.description,
     company_url |-> job.company_url, company_logo |-> job.company_logo,
     created_at |-> ts, updated_at |-> ts]

\* ON CONFLICT (id) DO UPDATE SET ...: the listed columns and updated_at
UpdatedRow(old, job, ts) ==
    [old EXCEPT !.title = job.title, !.company = job.company,
                !.description = job.description, !.posted_at = job.posted_at,
                !.company_logo = job.company_logo, !.updated_at = ts]

\* stmt.ExecContext: the rows of the transaction after the upsert of job
Upsert(table, tx, job, ts) ==
    LET view == Overlay(table, tx)
        row == IF job.id \in DOMAIN view
               THEN UpdatedRow(view[job.id], job, ts)
               ELSE InsertedRow(job, ts)
    IN  [i \in DOMAIN tx \cup {job.id} |-> IF i = job.id THEN row ELSE tx[i]]

\* an error path that commits what the transaction has written so far
RollbackTxCommits(table, tx) == Overlay(table, tx)

\* tx.Rollback: the table once the transaction is rolled back
RollbackTx(table, tx) == table

\* a commit that leaves only the rows of the transaction in the table
CommitTxReplaces(table, tx) == tx

\* a commit that persists nothing
CommitTxLost(table, tx) == table

\* tx.Commit: the rows of the transaction become part of the table
CommitTx(table, tx) == Overlay(table, tx)

\* the enrichment guard of the loop body
WantsLogo(config, job) ==
    /\ config.BrandFetchAPIKey # ""
    /\ job.company_logo = ""
    /\ job.company_url # ""

\* return count, err: the call state when SaveJobsToDB returns
Returned(st, err) == [st EXCEPT !.pc = "done", !.tx = << >>, !.err = err]

(***************************************************************************)
(* The three filters of the loop body, in the order the code applies       *)
(* them: the verdict for one record and the calls made to reach it.        *)
(* dupErr: the duplicate query fails.                                      *)
(***************************************************************************)
\* the filters without the blocklist
FilterNoBlocklist(table, job, dupErr) ==
    IF ~IsGoRelatedJob(job)
    THEN [verdict |-> "nonGo", ops |-> <<"IsGoRelatedJob">>]
    ELSE IF ~dupErr /\ IsDuplicateJob(table, job)
    THEN [verdict |-> "duplicate", ops |-> <<"IsGoRelatedJob", "IsDuplicateJob">>]
    ELSE [verdict |-> "pass",
          ops |-> <<"IsGoRelatedJob", "IsDuplicateJob">> \o
                  (IF dupErr THEN <<"IsDuplicateJob failed">> ELSE << >>)]

\* the filters without the relevance test
FilterNoRelevance(table, job, dupErr) ==
    IF IsBlockedCompany(job.company)
    THEN [verdict |-> "blocked", ops |-> <<"IsBlockedCompany">>]
    ELSE IF ~dupErr /\ IsDuplicateJob(table, job)
    THEN [verdict |-> "duplicate", ops |-> <<"IsBlockedCompany", "IsDuplicateJob">>]
    ELSE [verdict |-> "pass",
          ops |-> <<"IsBlockedCompany", "IsDuplicateJob">> \o
                  (IF dupErr THEN <<"IsDuplicateJob failed">> ELSE << >>)]

\* the filters with a duplicate check that drops the record when the query
\* fails
FilterFailClosed(table, job, dupErr) ==
    IF IsBlockedCompany(job.company)
    THEN [verdict |-> "blocked", ops |-> <<"IsBlockedCompany">>]
    ELSE IF ~IsGoRelatedJob(job)
    THEN [verdict |-> "nonGo", ops |-> <<"IsBlockedCompany", "IsGoRelatedJob">>]
    ELSE IF dupErr
    THEN [verdict |-> "duplicate",
          ops |-> <<"IsBlockedCompany", "IsGoRelatedJob", "IsDuplicateJob",
                    "IsDuplicateJob failed">>]
    ELSE IF IsDuplicateJob(table, job)
    THEN [verdict |-> "duplicate",
          ops |-> <<"IsBlockedCompany", "IsGoRelatedJob", "IsDuplicateJob">>]
    ELSE [verdict |-> "pass",
          ops |-> <<"IsBlockedCompany", "IsGoRelatedJob", "IsDuplicateJob">>]

Filter(table, job, dupErr) ==
    IF IsBlockedCompany(job.company)
    THEN [verdict |-> "blocked", ops |-> <<"IsBlockedCompany">>]
    ELSE IF ~IsGoRelatedJob(job)
    THEN [verdict |-> "nonGo", ops |-> <<"IsBlockedCompany", "IsGoRelatedJob">>]
    ELSE IF ~dupErr /\ IsDuplicateJob(table, job)
    THEN [verdict |-> "duplicate",
          ops |-> <<"IsBlockedCompany", "IsGoRelatedJob", "IsDuplicateJob">>]
    ELSE [verdict |-> "pass",
          ops |-> <<"IsBlockedCompany", "IsGoRelatedJob", "IsDuplicateJob">> \o
                  (IF dupErr THEN <<"IsDuplicateJob failed">> ELSE << >>)]

\* an enrichment that stores a marker when the lookup fails
EnrichMarksFailure(config, job, logo) ==
    IF WantsLogo(config, job)
    THEN [job EXCEPT !.company_logo = IF logo = "" THEN "failed" ELSE logo]
    ELSE job

\* the enrichment step: job.CompanyLogo = FetchCompanyLogo(...), "" when
\* the lookup fails
Enrich(config, job, logo) ==
    IF WantsLogo(config, job) THEN [job EXCEPT !.company_logo = logo] ELSE job

\* the calls of the enrichment step
EnrichOps(config, job, logo) ==
    IF WantsLogo(config, job)
    THEN <<"FetchCompanyLogo">> \o
         (IF logo = "" THEN <<"FetchCompanyLogo failed">> ELSE << >>)
    ELSE << >>

(***************************************************************************)
(* One iteration of `for _, job := range jobs` on the call state st.       *)
(* dupErr: the duplicate query fails; logo: what FetchCompanyLogo returns; *)
(* execOK: the upsert succeeds.                                            *)
(***************************************************************************)
LoopBody(st, table, config, dupErr, logo, execOK) ==
    LET job == st.batch[st.idx + 1]
        f == Filter(table, job, dupErr)
        enriched == Enrich(config, job, logo)
        next == [st EXCEPT !.idx = st.idx + 1, !.ops = Append(st.ops, f.ops)]
        queried == [st EXCEPT
                      !.idx = st.idx + 1,
                      !.dupErrs = st.dupErrs + (IF dupErr THEN 1 ELSE 0),
                      !.ops = Append(st.ops,
                                 f.ops \o EnrichOps(config, job, logo) \o
                                 <<"ExecContext">> \o
                                 (IF execOK THEN << >> ELSE <<"ExecContext failed">>))]
    IN  IF st.ctxDone
        THEN Returned(st, ErrCanceled)
        ELSE IF f.verdict = "blocked"
        THEN [next EXCEPT !.skippedBlockedCompanies = st.skippedBlockedCompanies + 1]
        ELSE IF f.verdict = "nonGo"
        THEN [next EXCEPT !.skippedNonGoJobs = st.skippedNonGoJobs + 1]
        ELSE IF f.verdict = "duplicate"
        THEN [next EXCEPT !.skippedDuplicates = st.skippedDuplicates + 1]
        ELSE IF ~execOK
        THEN Returned([queried EXCEPT !.idx = st.idx], ErrExec)
        ELSE [queried EXCEPT !.tx = Upsert(table, st.tx, enriched, st.txTime),
                             !.count = st.count + 1,
                             !.saved = st.saved \cup {st.idx + 1}]

(***************************************************************************)
(* SaveJobsToDB, one action per statement group.                           *)
(***************************************************************************)
\* the caller has the result of its previous call, if any, and calls
\* SaveJobsToDB: LoadConfig, db.BeginTx, tx.PrepareContext
SaveBegin(c, batch, outcome) ==
    /\ call[c].pc \in {"idle", "done"}
    /\ now <= MaxTx
    /\ now' = now + 1
    /\ LET repeats == /\ call[c].pc = "done"
                      /\ call[c].err = NoErr
                      /\ call[c].batch = batch
           fresh == [Idle EXCEPT !.batch = batch, !.snap = jobs,
                                 !.again = repeats,
                                 !.prevSaved = IF repeats THEN call[c].saved ELSE {}]
       IN  call' = [call EXCEPT ![c] =
                      IF outcome = NoErr
                      THEN [fresh EXCEPT !.pc = "loop", !.txTime = now + 1]
                      ELSE Returned(fresh, outcome)]
    /\ UNCHANGED <<jobs, cfg>>
    /\ UNCHANGED schedVars
    /\ UNCHANGED companyVars
    /\ UNCHANGED miscVars
    /\ UNCHANGED <<apiVars, probe>>

\* one iteration of the loop
SaveStep(c) ==
    /\ call[c].pc = "loop"
    /\ call[c].idx < Len(call[c].batch)
    /\ \E dupErr \in BOOLEAN, logo \in LogoResults, execOK \in BOOLEAN :
          LET st == LoopBody(call[c], jobs, cfg, dupErr, logo, execOK)
          IN  /\ call' = [call EXCEPT ![c] = st]
              /\ jobs' = IF st.pc = "done" THEN RollbackTx(jobs, call[c].tx) ELSE jobs
    /\ UNCHANGED <<now, cfg>>
    /\ UNCHANGED schedVars
    /\ UNCHANGED companyVars
    /\ UNCHANGED miscVars
    /\ UNCHANGED <<apiVars, probe>>

\* tx.Commit after the loop.  On a cancelled context Commit fails: with
\* ctx.Err() when the driver has not yet rolled the transaction back, with
\* sql.ErrTxDone when it has.
ErrTxDone == "sql: transaction has already been committed or rolled back"

SaveCommit(c) ==
    /\ call[c].pc = "loop"
    /\ call[c].idx = Len(call[c].batch)
    /\ \E commitErr \in {NoErr, ErrCommit, ErrCanceled, ErrTxDone} :
          /\ call[c].ctxDone <=> commitErr \in {ErrCanceled, ErrTxDone}
          /\ call' = [call EXCEPT ![c] = Returned(call[c], commitErr)]
          /\ jobs' = IF commitErr = NoErr
                     THEN CommitTx(jobs, call[c].tx)
                     ELSE RollbackTx(jobs, call[c].tx)
    /\ UNCHANGED <<now, cfg>>
    /\ UNCHANGED schedVars
    /\ UNCHANGED companyVars
    /\ UNCHANGED miscVars
    /\ UNCHANGED <<apiVars, probe>>

\* the caller's context is cancelled or times out while the call runs
CtxCancel(c) ==
    /\ call[c].pc = "loop"
    /\ ~call[c].ctxDone
    /\ call' = [call EXCEPT ![c].ctxDone = TRUE,
                            ![c].cancelIdx = call[c].idx,
                            ![c].cancelCount = call[c].count]
    /\ UNCHANGED <<jobs, now, cfg>>
    /\ UNCHANGED schedVars
    /\ UNCHANGED companyVars
    /\ UNCHANGED miscVars
    /\ UNCHANGED <<apiVars, probe>>

(***************************************************************************)
(* SaveJobsToDB as one call, for the callers that only use its result: the *)
(* same loop body, run to the end.  plan holds the inputs of the call:     *)
(* cancelAt (the context is done when the loop reaches that position, -1:  *)
(* never), failAt (the upsert of that record fails, 0: none), dupErr and   *)
(* logo (for every record), commitErr (what tx.Commit returns).            *)
(***************************************************************************)
RECURSIVE RunLoop(_, _, _, _)
RunLoop(st, table, config, plan) ==
    IF st.pc = "done" \/ st.idx = Len(st.batch)
    THEN st
    ELSE LET seen == IF plan.cancelAt = st.idx
                     THEN [st EXCEPT !.ctxDone = TRUE, !.cancelIdx = st.idx,
                                     !.cancelCount = st.count]
                     ELSE st
         IN  RunLoop(LoopBody(seen, table, config, plan.dupErr, plan.logo,
                              plan.failAt # st.idx + 1),
                     table, config, plan)

SaveJobsToDB(table, batch, config, ts, plan) ==
    LET begun == [Idle EXCEPT !.pc = "loop", !.batch = batch, !.txTime = ts]
        st == RunLoop(begun, table, config, plan)
        cancelled == plan.cancelAt = Len(batch)
        commitErr == IF cancelled THEN ErrCanceled ELSE plan.commitErr
    IN  IF st.pc = "done"
        THEN [count |-> st.count, err |-> st.err, table |-> RollbackTx(table, st.tx)]
        ELSE IF commitErr # NoErr
        THEN [count |-> st.count, err |-> commitErr, table |-> RollbackTx(table, st.tx)]
        ELSE [count |-> st.count, err |-> NoErr, table |-> CommitTx(table, st.tx)]

\* the calls a scheduled run is followed through: all queries succeed; the
\* upsert of the last record fails
Plans(batch) ==
    LET ok == [cancelAt |-> -1, failAt |-> 0, dupErr |-> FALSE, logo |-> "",
               commitErr |-> NoErr]
    IN  {ok} \cup (IF batch = << >> THEN {} ELSE {[ok EXCEPT !.failAt = Len(batch)]})

(***************************************************************************)
(* The scheduler (internal/services/jobs.go) and job_schedule_info.        *)
(* Times are minutes; ZeroTime is the zero time.Time.                      *)
(***************************************************************************)
Minute == 1
Hour == 60
ZeroTime == 0

\* jobConfigs: API name -> interval in hours (LinkedIn is commented out)
jobConfigs == [JSearch |-> 12, Indeed |-> 24, ApifyLinkedIn |-> 24]
Sources == DOMAIN jobConfigs

ErrFetch == "fetch failed"

\* what an adapter can return: an error, or a batch
AdapterBatches == { <<J2, J1>> }

\* GetJobScheduleInfo: the rows of one API name (none: sql.ErrNoRows)
GetJobScheduleInfo(table, apiName) == { r \in table : r.ApiName = apiName }

\* a plain INSERT, without the ON CONFLICT clause
InsertJobScheduleInfo(table, info) == table \cup {info}

\* UpdatesJobScheduleInfo: INSERT ... ON CONFLICT (api_name) DO UPDATE SET
\* every other column
UpdatesJobScheduleInfo(table, info) ==
    { r \in table : r.ApiName # info.ApiName } \cup {info}

\* a run log that retries a run that did not succeed after one hour
LogJobRunBackoff(table, apiName, status, jobCount, errorMsg, intervalHours, t) ==
    UpdatesJobScheduleInfo(table,
        [ApiName |-> apiName, LastRunTime |-> t,
         NextRunTime |-> IF status = "Success" THEN t + intervalHours * Hour
                         ELSE t + 1 * Hour,
         IntervalHours |-> intervalHours, Status |-> status,
         LastRunCount |-> jobCount, LastErrorMsg |-> errorMsg])

\* LogJobRun
LogJobRun(table, apiName, status, jobCount, errorMsg, intervalHours, t) ==
    UpdatesJobScheduleInfo(table,
        [ApiName |-> apiName, LastRunTime |-> t,
         NextRunTime |-> t + intervalHours * Hour,
         IntervalHours |-> intervalHours, Status |-> status,
         LastRunCount |-> jobCount, LastErrorMsg |-> errorMsg])

\* startup variants: the persisted time is ignored; an overdue job runs at
\* once; a new job runs at once
StartupNextRunIgnoresRow(exists, info, t) == t + 1 * Hour
StartupNextRunOverdueNow(exists, info, t) ==
    IF exists /\ info.NextRunTime # ZeroTime
    THEN (IF info.NextRunTime < t THEN t ELSE info.NextRunTime)
    ELSE t + 1 * Hour
StartupNextRunNewNow(exists, info, t) ==
    IF exists /\ info.NextRunTime # ZeroTime
    THEN (IF info.NextRunTime < t THEN t + 1 * Minute ELSE info.NextRunTime)
    ELSE t

\* StartJobScheduler, "Calculate when the next run should be"
StartupNextRun(exists, info, t) ==
    IF exists /\ info.NextRunTime # ZeroTime
    THEN (IF info.NextRunTime < t THEN t + 1 * Minute ELSE info.NextRunTime)
    ELSE t + 1 * Hour

\* the row StartJobScheduler writes for a source without one
InitialInfo(apiName, nextRun) ==
    [ApiName |-> apiName, LastRunTime |-> ZeroTime, NextRunTime |-> nextRun,
     IntervalHours |-> jobConfigs[apiName], Status |-> "Scheduled",
     LastRunCount |-> 0, LastErrorMsg |-> ""]

\* scheduleMap: the loaded rows by API name
ScheduleMap(rows) ==
    [a \in { r.ApiName : r \in rows } |-> CHOOSE r \in rows : r.ApiName = a]

\* scheduler.Every(n).Hours().StartAt(nextRun).Do(...): the gocron job.  A
\* start time that is not in the future is moved on by whole intervals.
CronJob(apiName, nextRun, t) ==
    [startAt |-> nextRun,
     nextRun |-> IF nextRun > t THEN nextRun ELSE nextRun + jobConfigs[apiName] * Hour,
     tags |-> << >>, runs |-> 0]

NoRun == [api |-> "", at |-> ZeroTime, fetchErr |-> NoErr, saveCalled |-> FALSE,
          count |-> 0, err |-> NoErr]

RECURSIVE InitRows(_, _, _, _)
\* the loop of StartJobScheduler over jobConfigs, on the table
InitRows(table, todo, map, t) ==
    IF todo = {} THEN table
    ELSE LET a == CHOOSE x \in todo : TRUE
             exists == a \in DOMAIN map
             nextRun == StartupNextRun(exists, IF exists THEN map[a] ELSE InitialInfo(a, ZeroTime), t)
         IN  InitRows(IF exists THEN table
                      ELSE UpdatesJobScheduleInfo(table, InitialInfo(a, nextRun)),
                      todo \ {a}, map, t)

\* StartJobScheduler.  loadOK: GetAllJobScheduleInfo succeeds.
StartJobScheduler(loadOK) ==
    /\ ~up
    /\ LET scheduleInfos == IF loadOK THEN schedule ELSE {}
           map == ScheduleMap(scheduleInfos)
           nextRunOf(a) == StartupNextRun(a \in DOMAIN map,
                               IF a \in DOMAIN map THEN map[a] ELSE InitialInfo(a, ZeroTime),
                               now)
       IN  /\ schedule' = InitRows(schedule, Sources, map, now)
           /\ cron' = [a \in Sources |-> CronJob(a, nextRunOf(a), now)]
           /\ startup' = [at |-> now,
                         loaded |-> [a \in DOMAIN map |-> map[a].NextRunTime]]
    /\ up' = TRUE
    /\ shutdown' = << >>
    /\ UNCHANGED <<jobs, now, cfg, call, last, ticks>>
    /\ UNCHANGED companyVars
    /\ UNCHANGED miscVars
    /\ UNCHANGED <<apiVars, probe>>

RECURSIVE PersistNextRuns(_, _)
\* the loop of StopJobScheduler over scheduler.Jobs()
PersistNextRuns(table, todo) ==
    IF todo = {} THEN table
    ELSE LET a == CHOOSE x \in todo : TRUE
             job == cron[a]
             found == IF Len(job.tags) > 0
                      THEN GetJobScheduleInfo(table, job.tags[1]) ELSE {}
         IN  PersistNextRuns(
                 IF found = {} THEN table
                 ELSE UpdatesJobScheduleInfo(table,
                          [(CHOOSE r \in found : TRUE) EXCEPT !.NextRunTime = job.nextRun]),
                 todo \ {a})

\* StopJobScheduler
StopJobScheduler ==
    /\ up
    /\ schedule' = PersistNextRuns(schedule, Sources)
    /\ shutdown' = [a \in Sources |-> cron[a].nextRun]
    /\ up' = FALSE
    /\ cron' = << >>
    /\ startup' = [at |-> ZeroTime, loaded |-> << >>]
    /\ UNCHANGED <<jobs, now, cfg, call, last, ticks>>
    /\ UNCHANGED companyVars
    /\ UNCHANGED miscVars
    /\ UNCHANGED <<apiVars, probe>>

\* a save error recorded as a failed run
RunStatusSaveFailed(fetchErr, saveErr) ==
    IF fetchErr # NoErr \/ saveErr # NoErr THEN "Failed" ELSE "Success"

\* the status FetchAndSave* passes to LogJobRun
RunStatus(fetchErr, saveErr) ==
    IF fetchErr # NoErr THEN "Failed"
    ELSE IF saveErr # NoErr THEN "Partial Success"
    ELSE "Success"

\* a scheduler in which a firing moves every job on by the interval of a
RearmAll(c, a) ==
    [b \in DOMAIN c |->
        [c[b] EXCEPT !.nextRun = c[b].nextRun + jobConfigs[a] * Hour,
                     !.runs = c[b].runs + (IF b = a THEN 1 ELSE 0)]]

\* a scheduler that does not arm a job again after its run
RearmNever(c, a) == [c EXCEPT ![a].runs = c[a].runs + 1]

\* gocron after a firing of the job of source a: that job, and no other, is
\* due again one interval after the time it was due
Rearm(c, a) ==
    [c EXCEPT ![a].nextRun = c[a].nextRun + jobConfigs[a] * Hour,
              ![a].runs = c[a].runs + 1]

\* gocron fires the job of source a and re-arms it one interval later; the
\* job is FetchAndSaveJSearch, FetchAndSaveIndeed or
\* FetchAndSaveApifyLinkedIn: the adapter, SaveJobsToDB, LogJobRun.
\* fetchErr: the adapter's error.
FetchAndSave(a, fetchErr, batch, plan) ==
    /\ up
    /\ cron[a].nextRun = now
    /\ \E res \in { IF fetchErr # NoErr
                     THEN [count |-> 0, err |-> fetchErr, table |-> jobs]
                     ELSE SaveJobsToDB(jobs, batch, cfg, now, plan) } :
       LET saveErr == IF fetchErr # NoErr THEN NoErr ELSE res.err
       IN  /\ jobs' = res.table
           /\ schedule' = LogJobRun(schedule, a, RunStatus(fetchErr, saveErr),
                                    res.count, res.err, jobConfigs[a], now)
           /\ last' = [api |-> a, at |-> now, fetchErr |-> fetchErr,
                       saveCalled |-> fetchErr = NoErr,
                       count |-> res.count, err |-> saveErr]
    /\ cron' = Rearm(cron, a)
    /\ UNCHANGED <<now, cfg, call, up, startup, shutdown, ticks>>
    /\ UNCHANGED companyVars
    /\ UNCHANGED miscVars
    /\ UNCHANGED <<apiVars, probe>>

Min(S) == CHOOSE t \in S : \A u \in S : t <= u

\* the timers of the started scheduler
Deadlines == { cron[a].nextRun : a \in DOMAIN cron }

Deltas == {1 * Minute, 12 * Hour}

\* time passes, up to the next timer
Tick(d) ==
    /\ ticks < MaxTicks
    /\ \A t \in Deadlines : t > now
    /\ now' = IF \E t \in Deadlines : t < now + d THEN Min(Deadlines) ELSE now + d
    /\ ticks' = ticks + 1
    /\ UNCHANGED <<jobs, cfg, call, schedule, up, cron, last, startup, shutdown>>
    /\ UNCHANGED companyVars
    /\ UNCHANGED miscVars
    /\ UNCHANGED <<apiVars, probe>>

(***************************************************************************)
(* The company details cache: GetOrFetchCompanyDetails and the             *)
(* company_details table.                                                  *)
(***************************************************************************)
CompanyNames == {Acme, AcmeUpper, Canonical}

ErrDetailsQuery == "error getting company details from DB"
ErrDetailsAPI == "error fetching company details from API"

\* a caller that is not inside GetOrFetchCompanyDetails.  seen (the table
\* when the call queried it), apiCalled and result (the row returned, as a
\* set) record what happened, as do apiErr and saveErr (the API call, the
\* insert failed); n numbers the calls.
NoLookup == [pc |-> "idle", n |-> 0, companyName |-> << >>, seen |-> {},
             apiCalled |-> FALSE, apiErr |-> FALSE, saveErr |-> FALSE,
             result |-> {}, err |-> NoErr]

\* a lookup key that keeps the letter case of the name
CompanyIDRaw(companyName) == companyName

\* companyID := strings.ToLower(companyName)
CompanyID(companyName) == ToLower(companyName)

\* GetCompanyDetailsByCompanyID: WHERE company_id = $1 ORDER BY updated_at
\* DESC LIMIT 1.  The rows the query can return (none: sql.ErrNoRows; more
\* than one when the greatest updated_at is shared).
GetCompanyDetailsByCompanyID(table, companyID) ==
    LET rows == { r \in table : r.company_id = companyID }
    IN  { r \in rows : \A q \in rows : q.updated_at <= r.updated_at }

\* FetchCompanyDetailsFromAPI on a 200 response: a row with a fresh id and
\* the lower-cased name as company_id
FetchCompanyDetailsFromAPI(companyName, id) ==
    [id |-> id, company_id |-> ToLower(companyName), name |-> companyName,
     created_at |-> ZeroTime, updated_at |-> ZeroTime]

\* SaveCompanyDetails: the timestamps are set to time.Now(), the row is
\* inserted (ON CONFLICT (id) DO UPDATE)
Stamped(d, t) == [d EXCEPT !.created_at = t, !.updated_at = t]
SaveCompanyDetails(table, d, t) ==
    { r \in table : r.id # d.id } \cup {Stamped(d, t)}

\* GetOrFetchCompanyDetails up to the result of the query.  dbOK: the query
\* succeeds.
GetOrFetchLookup(c, companyName, dbOK) ==
    /\ lk[c].pc \in {"idle", "done"}
    /\ lookups < MaxLookups
    /\ lookups' = lookups + 1
    /\ now' = now + 1
    /\ LET begun == [NoLookup EXCEPT !.n = lookups + 1, !.companyName = companyName,
                                    !.seen = details]
           hits == GetCompanyDetailsByCompanyID(details, CompanyID(companyName))
       IN  IF ~dbOK
           THEN lk' = [lk EXCEPT ![c] = [begun EXCEPT !.pc = "done",
                                                      !.err = ErrDetailsQuery]]
           ELSE IF hits = {}
           THEN lk' = [lk EXCEPT ![c] = [begun EXCEPT !.pc = "miss"]]
           ELSE \E r \in hits :
                   lk' = [lk EXCEPT ![c] = [begun EXCEPT !.pc = "done", !.result = {r}]]
    /\ UNCHANGED <<jobs, cfg, call, details>>
    /\ UNCHANGED miscVars
    /\ UNCHANGED schedVars
    /\ UNCHANGED <<apiVars, probe>>

\* a read-through that returns an error when the fetched details cannot be
\* saved
GetOrFetchMissEscalates(c, apiOK, saveOK) ==
    /\ lk[c].pc = "miss"
    /\ now' = now + 1
    /\ LET fetched == FetchCompanyDetailsFromAPI(lk[c].companyName,
                                                 Cardinality(details) + 1)
       IN  IF ~apiOK \/ ~saveOK
           THEN /\ lk' = [lk EXCEPT ![c].pc = "done", ![c].apiCalled = TRUE,
                                    ![c].apiErr = ~apiOK, ![c].saveErr = apiOK,
                                    ![c].err = ErrDetailsAPI]
                /\ details' = details
           ELSE /\ lk' = [lk EXCEPT ![c].pc = "done", ![c].apiCalled = TRUE,
                                    ![c].result = {Stamped(fetched, now + 1)}]
                /\ details' = SaveCompanyDetails(details, fetched, now + 1)
    /\ UNCHANGED <<jobs, cfg, call, lookups>>
    /\ UNCHANGED miscVars
    /\ UNCHANGED schedVars
    /\ UNCHANGED <<apiVars, probe>>

\* GetOrFetchCompanyDetails after a miss: FetchCompanyDetailsFromAPI, then
\* SaveCompanyDetails.  apiOK: the API call succeeds; saveOK: the insert
\* succeeds (a failure is logged, the fetched details are still returned).
GetOrFetchMiss(c, apiOK, saveOK) ==
    /\ lk[c].pc = "miss"
    /\ now' = now + 1
    /\ LET fetched == FetchCompanyDetailsFromAPI(lk[c].companyName,
                                                 Cardinality(details) + 1)
       IN  IF ~apiOK
           THEN /\ lk' = [lk EXCEPT ![c].pc = "done", ![c].apiCalled = TRUE,
                                    ![c].apiErr = TRUE, ![c].err = ErrDetailsAPI]
                /\ details' = details
           ELSE /\ lk' = [lk EXCEPT ![c].pc = "done", ![c].apiCalled = TRUE,
                                    ![c].saveErr = ~saveOK,
                                    ![c].result = {Stamped(fetched, now + 1)}]
                /\ details' = IF saveOK
                              THEN SaveCompanyDetails(details, fetched, now + 1)
                              ELSE details
    /\ UNCHANGED <<jobs, cfg, call, lookups>>
    /\ UNCHANGED miscVars
    /\ UNCHANGED schedVars
    /\ UNCHANGED <<apiVars, probe>>

(***************************************************************************)
(* The HTTP API: APIKeyAuthMiddleware in front of SyncJobs, and the        *)
(* goroutine SyncJobs starts.  Times are minutes of the wall clock.        *)
(***************************************************************************)
\* cfg.APIKey
APIKey == "key"

\* an absent X-Timestamp header.  A header is [fmt, t]: RFC 3339 text of
\* time t, or ("unix") the decimal Unix seconds of time t.
NoStamp == [fmt |-> "", t |-> 0]

\* hex(HMAC-SHA256(key, message)): equal exactly for equal key and message
HMAC(key, path, stamp) == [key |-> key, path |-> path, stamp |-> stamp]
\* an absent X-Signature header
NoSignature == HMAC("", "", NoStamp)

\* the requests served at time t: every combination of the authentication
\* headers with one source, and every source with one valid set of headers
Requests(t) ==
    UNION { { [header |-> h, query |-> q, timestamp |-> ts, signature |-> sg,
               source |-> "jsearch"] :
                h \in {"", APIKey, "bad"}, q \in {"", APIKey},
                sg \in {NoSignature, HMAC(APIKey, "", ts), HMAC("bad", "", ts),
                        HMAC(APIKey, "/api/jobs/sync", ts)} } :
            ts \in {NoStamp, [fmt |-> "unix", t |-> t]}
                      \cup { [fmt |-> "rfc3339", t |-> t + d] : d \in {-6, -5, 0, 6} } }
    \cup
    { [header |-> APIKey, query |-> "", timestamp |-> [fmt |-> "rfc3339", t |-> t],
       signature |-> HMAC(APIKey, "", [fmt |-> "rfc3339", t |-> t]), source |-> src] :
        src \in {"", "jsearch", "indeed", "linkedin", "apify_linkedin", "monster"} }

\* APIKeyAuthMiddleware: TRUE when next.ServeHTTP is called, FALSE when the
\* request is answered 401.  hmac: the variant that validates X-Timestamp
\* and X-Signature; time.Parse(time.RFC3339, timestamp) fails on any other
\* text.
APIKeyAuthMiddleware(r, hmac, t) ==
    LET apiKey == IF r.header = "" THEN r.query ELSE r.header
    IN  IF apiKey # APIKey THEN FALSE
        ELSE IF ~hmac THEN TRUE
        ELSE IF r.timestamp = NoStamp \/ r.signature = NoSignature THEN FALSE
        ELSE IF r.timestamp.fmt # "rfc3339" \/ t - r.timestamp.t > 5 * Minute
        THEN FALSE
        ELSE r.signature = HMAC(APIKey, "", r.timestamp)

validSources == {"jsearch", "indeed", "linkedin", "apify_linkedin"}

\* a goroutine that runs every source's cycle
SyncTargetsAll(source) ==
    {"FetchAndSaveJSearch", "FetchAndSaveIndeed", "FetchAndSaveLinkedIn",
     "FetchAndSaveApifyLinkedIn"}

\* the functions the goroutine of SyncJobs calls for a source
SyncTargets(source) ==
    (IF source = "jsearch" THEN {"FetchAndSaveJSearch"} ELSE {})
    \cup (IF source = "indeed" THEN {"FetchAndSaveIndeed"} ELSE {})
    \cup (IF source = "linkedin" THEN {"FetchAndSaveLinkedIn"} ELSE {})
    \cup (IF source = "apify_linkedin" THEN {"FetchAndSaveApifyLinkedIn"} ELSE {})

\* no request was served yet.  handler: SyncJobs was invoked; spawned: the
\* position in cycles of the goroutine it started (0: none).
NoResponse == [req |-> [header |-> "", query |-> "", timestamp |-> NoStamp,
                        signature |-> NoSignature, source |-> ""],
               status |-> 0, handler |-> FALSE, success |-> FALSE, spawned |-> 0]

\* SetupRoutes installs APIKeyAuthMiddleware(cfg).  middleware.go defines
\* that name with and without HMAC validation; the router that validates
\* is set up here, before any request is served.
SetupRoutes ==
    /\ served = 0
    /\ ~signed
    /\ signed' = TRUE
    /\ UNCHANGED <<jobs, now, cfg, call, served, resp, cycles, probe>>
    /\ UNCHANGED schedVars
    /\ UNCHANGED companyVars
    /\ UNCHANGED miscVars

\* a POST /api/jobs/sync is served: APIKeyAuthMiddleware, then SyncJobs
ServeSync(r) ==
    /\ served < MaxRequests
    /\ served' = served + 1
    /\ IF ~APIKeyAuthMiddleware(r, signed, now)
       THEN /\ resp' = [NoResponse EXCEPT !.req = r, !.status = 401]
            /\ cycles' = cycles
       ELSE IF r.source # "" /\ r.source \notin validSources
       THEN /\ resp' = [NoResponse EXCEPT !.req = r, !.status = 400, !.handler = TRUE]
            /\ cycles' = cycles
       ELSE /\ resp' = [NoResponse EXCEPT !.req = r, !.status = 200, !.handler = TRUE,
                                          !.success = TRUE,
                                          !.spawned = Len(cycles) + 1]
            /\ cycles' = Append(cycles, [source |-> r.source, pc |-> "pending",
                                         called |-> {}, outcome |-> ""])
    /\ UNCHANGED <<jobs, now, cfg, call, signed, probe>>
    /\ UNCHANGED schedVars
    /\ UNCHANGED companyVars
    /\ UNCHANGED miscVars

\* the goroutine SyncJobs started runs: the FetchAndSave function of the
\* source (adapter, then SaveJobsToDB), or nothing for an empty source
GoSync(i, fetchErr, batch, plan) ==
    /\ i \in DOMAIN cycles
    /\ cycles[i].pc = "pending"
    /\ LET called == SyncTargets(cycles[i].source)
       IN  IF called = {}
           THEN /\ cycles' = [cycles EXCEPT ![i].pc = "done"]
                /\ jobs' = jobs
           ELSE \E res \in { IF fetchErr # NoErr
                             THEN [count |-> 0, err |-> NoErr, table |-> jobs]
                             ELSE SaveJobsToDB(jobs, batch, cfg, now, plan) } :
                   /\ jobs' = res.table
                   /\ cycles' = [cycles EXCEPT ![i].pc = "done",
                                               ![i].called = called,
                                               ![i].outcome = RunStatus(fetchErr, res.err)]
    /\ UNCHANGED <<now, cfg, call, signed, served, resp, probe>>
    /\ UNCHANGED schedVars
    /\ UNCHANGED companyVars
    /\ UNCHANGED miscVars

(***************************************************************************)
(* The source adapters: FetchJSearchJobs, FetchLinkedInJobs,               *)
(* FetchIndeedJobs, FetchApifyLinkedInJobs, from the response body on.     *)
(* A body is JSON text: kind says what it is at the top level ("array",    *)
(* "envelope": an object with the array under "data", "string": a JSON     *)
(* string whose text is inner, "malformed": no JSON, beginning with a      *)
(* quote when inner is "quote", "null": the JSON null, "none": no body was *)
(* read, client.Do or io.ReadAll failed), lead the whitespace before it,   *)
(* items the elements of the array.                                        *)
(***************************************************************************)
\* an element of the array.  object: it is a JSON object; typed: its
\* fields have the JSON types the adapters' structs declare; error: its
\* "error" field, when that is a string
Item(id, title, description, error, typed, object) ==
    [id |-> id, title |-> title, description |-> description, error |-> error,
     typed |-> typed, object |-> object]
ItemSeqs ==
    LET ItemPool == {
      Item(<<"v", "1">>, GoDev, <<"F","u","l","l","y"," ","R","e","m","o","t","e">>, NoText, TRUE, TRUE),
      Item(NoText, Java, <<"o","n"," ","s","i","t","e">>, NoText, TRUE, TRUE),
      Item(NoText, NoText, NoText, <<"e">>, TRUE, TRUE),
      Item(<<"7">>, goDevLower, NoText, NoText, FALSE, TRUE),
      Item(NoText, NoText, NoText, NoText, FALSE, FALSE) }
    IN  UNION { [1..n -> ItemPool] : n \in 0..MaxItems }

Body(lead, kind, inner, items) ==
    [lead |-> lead, kind |-> kind, inner |-> inner, items |-> items]
Bodies ==
    { Body(l, k, "", its) : l \in {"", " "}, k \in {"array", "envelope"},
                            its \in ItemSeqs }
    \cup { Body(l, "string", k, its) :
              l \in {"", " "}, k \in {"array", "envelope", "malformed"},
              its \in ItemSeqs }
    \cup { Body(l, "malformed", k, << >>) : l \in {"", " "}, k \in {"", "quote"} }
    \cup { Body("", "null", "", << >>), Body("", "string", "null", << >>),
           Body("", "none", "", << >>) }

\* the times of a fetch: calendar days
FetchTimes == {Mar15, [y |-> 2025, m |-> 1, d |-> 31], [y |-> 2025, m |-> 12, d |-> 15]}

\* time.Time.AddDate: the fields are added, then the date is normalised
\* (a day after the end of the month runs on into the next month)
DaysIn(y, m) ==
    IF m = 2 THEN (IF y % 4 = 0 /\ (y % 100 # 0 \/ y % 400 = 0) THEN 29 ELSE 28)
    ELSE IF m \in {4, 6, 9, 11} THEN 30 ELSE 31
AddDate(t, years, months, days) ==
    LET y1 == t.y + years + ((t.m + months - 1) \div 12)
        m1 == ((t.m + months - 1) % 12) + 1
        d1 == t.d + days
    IN  IF d1 <= DaysIn(y1, m1) THEN [y |-> y1, m |-> m1, d |-> d1]
        ELSE [y |-> IF m1 = 12 THEN y1 + 1 ELSE y1, m |-> (m1 % 12) + 1,
              d |-> d1 - DaysIn(y1, m1)]

\* uuid.New().String(): the i-th identifier made, never empty
NewUUID(i) == [n \in 1..i |-> "u"]

\* json.Unmarshal of the body into []map[string]interface{}, into a struct
\* with the typed array under "data", into a typed array (into a string:
\* kind is "string"); null unmarshals into each of them and leaves it empty
AllObjects(items) == \A i \in DOMAIN items : items[i].object
AllTyped(items) == \A i \in DOMAIN items : items[i].object /\ items[i].typed
UnmarshalMaps(body) ==
    body.kind = "null" \/ (body.kind = "array" /\ AllObjects(body.items))
UnmarshalEnvelope(body) ==
    body.kind = "null" \/ (body.kind = "envelope" /\ AllTyped(body.items))
UnmarshalTyped(body) ==
    body.kind = "null" \/ (body.kind = "array" /\ AllTyped(body.items))


\* a record that takes the vendor's id as its id
JobOfVendorId(source, items, i, jobID, t) ==
    [id |-> items[i].id, job_id |-> jobID, title |-> items[i].title,
     source |-> source, date_gotten |-> t, exp_date |-> AddDate(t, 0, 1, 0)]

\* the models.Job an adapter makes of item i (the fields the properties
\* are about)
JobOf(source, items, i, jobID, t) ==
    [id |-> NewUUID(i), job_id |-> jobID, title |-> items[i].title,
     source |-> source, date_gotten |-> t, exp_date |-> AddDate(t, 0, 1, 0)]

JobsOf(source, items, t) ==
    [i \in DOMAIN items |->
        JobOf(source, items, i,
              IF items[i].typed THEN items[i].id ELSE NoText, t)]

Fetched(fetched, err) == [jobs |-> fetched, err |-> err]

\* a containsAny that compares the text as it is
containsAnyCaseSensitive(s, substrings) ==
    \E k \in DOMAIN substrings : Contains(s, substrings[k])

\* containsAny: s is lower-cased, then searched for each lower-cased
\* substring in turn
containsAny(s, substrings) ==
    \E k \in DOMAIN substrings : Contains(ToLower(s), ToLower(substrings[k]))

\* []string{"remote", "work from home", "wfh"}
remoteTokens == << <<"r","e","m","o","t","e">>,
                  <<"w","o","r","k"," ","f","r","o","m"," ","h","o","m","e">>,
                  <<"w","f","h">> >>

\* IsRemote: containsAny(item.Description, ...), for each record
WithRemote(fetched, items) ==
    [i \in DOMAIN fetched |->
        [is_remote |-> containsAny(items[i].description, remoteTokens)] @@ fetched[i]]

\* the body is an array whose first element has a string "error" field
ErrorResp(body) ==
    /\ UnmarshalMaps(body) /\ Len(body.items) > 0
    /\ body.items[1].error # NoText

FetchJSearchJobs(body, t) ==
    IF ~UnmarshalEnvelope(body) THEN Fetched(<< >>, "json unmarshal error")
    ELSE Fetched([i \in DOMAIN body.items |->
                     JobOf("jsearch", body.items, i, NewUUID(i), t)], NoErr)

\* an Indeed adapter for which a response without records is an error
FetchIndeedJobsEmptyIsError(body, t) ==
    IF ~UnmarshalTyped(body) \/ ErrorResp(body) THEN Fetched(<< >>, "json unmarshal error")
    ELSE IF Len(body.items) = 0 THEN Fetched(<< >>, "no data returned")
    ELSE Fetched(WithRemote(JobsOf("apify indeed", body.items, t), body.items), NoErr)

FetchIndeedJobs(body, t) ==
    IF ErrorResp(body) THEN Fetched(<< >>, NoErr)
    ELSE IF ~UnmarshalTyped(body) THEN Fetched(<< >>, "json unmarshal error")
    ELSE Fetched(WithRemote(JobsOf("apify indeed", body.items, t), body.items), NoErr)

\* an Apify LinkedIn adapter for which an empty array is a result
FetchApifyLinkedInJobsEmptyOK(body, t) ==
    IF ~UnmarshalTyped(body)
    THEN Fetched(<< >>, IF ErrorResp(body) THEN "Apify LinkedIn API error"
                        ELSE "json unmarshal error")
    ELSE Fetched(WithRemote(JobsOf("apify linkedin", body.items, t), body.items), NoErr)

FetchApifyLinkedInJobs(body, t) ==
    IF ~UnmarshalTyped(body)
    THEN Fetched(<< >>, IF ErrorResp(body) THEN "Apify LinkedIn API error"
                        ELSE "json unmarshal error")
    ELSE IF Len(body.items) = 0 THEN Fetched(<< >>, "no data returned")
    ELSE Fetched(WithRemote(JobsOf("apify linkedin", body.items, t), body.items), NoErr)

\* an adapter that does not look for a JSON string
FetchLinkedInJobsNoString(body, t) ==
    IF UnmarshalMaps(body) /\ Len(body.items) > 0
    THEN Fetched(JobsOf("linkedin", body.items, t), NoErr)
    ELSE IF ~UnmarshalEnvelope(body) THEN Fetched(<< >>, "json unmarshal error")
    ELSE IF Len(body.items) = 0 THEN Fetched(<< >>, "no data returned")
    ELSE Fetched(JobsOf("linkedin", body.items, t), NoErr)

\* FetchLinkedInJobs: the body as an array of objects; else as the
\* envelope; else, when its first byte is a quote, as a JSON string whose
\* text is the envelope
FetchLinkedInJobs(body, t) ==
    IF UnmarshalMaps(body) /\ Len(body.items) > 0
    THEN Fetched(JobsOf("linkedin", body.items, t), NoErr)
    ELSE LET first == UnmarshalEnvelope(body)
             quoted == /\ body.lead = ""
                       /\ \/ body.kind = "string"
                          \/ body.kind = "malformed" /\ body.inner = "quote"
             rawJSON == Body("", body.inner, "", body.items)
         IN  IF ~first /\ ~quoted THEN Fetched(<< >>, "json unmarshal error")
             ELSE IF ~first /\ body.kind # "string"
             THEN Fetched(<< >>, "failed to unmarshal linkedin response as JSON string")
             ELSE IF ~first /\ ~UnmarshalEnvelope(rawJSON)
             THEN Fetched(<< >>, "failed to parse linkedin response from raw JSON string")
             ELSE IF Len(body.items) = 0 THEN Fetched(<< >>, "no data returned")
             ELSE Fetched(JobsOf("linkedin", body.items, t), NoErr)

Adapters == {"FetchJSearchJobs", "FetchLinkedInJobs", "FetchIndeedJobs",
             "FetchApifyLinkedInJobs"}

\* an adapter is called at time t: it returns the transport error when the
\* request or the reading of the body fails, and else what it makes of the
\* body (probe.op is "" until a function is called; a behaviour calls one,
\* once)
Fetch(adapter, body, t) ==
    /\ probe.op = ""
    /\ probe' = [op |-> adapter, body |-> body, t |-> t,
                 out |-> CASE body.kind = "none" -> Fetched(<< >>, "transport error")
                           [] adapter = "FetchJSearchJobs" -> FetchJSearchJobs(body, t)
                           [] adapter = "FetchLinkedInJobs" -> FetchLinkedInJobs(body, t)
                           [] adapter = "FetchIndeedJobs" -> FetchIndeedJobs(body, t)
                           [] adapter = "FetchApifyLinkedInJobs" ->
                                 FetchApifyLinkedInJobs(body, t)]
    /\ UNCHANGED <<jobs, now, cfg, call>>
    /\ UNCHANGED schedVars
    /\ UNCHANGED companyVars
    /\ UNCHANGED miscVars
    /\ UNCHANGED apiVars

(***************************************************************************)
(* The filters called on their own: texts and company names to call them   *)
(* with.                                                                   *)
(***************************************************************************)
JavaDeveloper == <<"J","a","v","a"," ","D","e","v","e","l","o","p","e","r">>
\* texts: a word that holds the letters g, o, with something before and
\* after it
Texts ==
    LET GoWords == { <<"g","o">>,
                       <<"G","o">>,
                       <<"G","O">>,
                       <<"g","o","l","a","n","g">>,
                       <<"G","o","L","a","n","g">>,
                       <<"G","O","L","A","N","G">>,
                       <<"g","o","o","d">>,
                       <<"g","o","o","g","l","e">>,
                       <<"m","o","n","g","o">>,
                       <<"c","a","r","g","o">>,
                       <<"g","o","p","h","e","r">> }
        Before == { NoText, <<"a"," ">>, <<"(">>, <<"a",",">>, <<"x">>, <<"a","/">> }
        After == { NoText, <<" ","b">>, <<")">>, <<","," ","b">>, <<"x">>, <<".">> }
    IN  { pre \o word \o post : pre \in Before, word \in GoWords, post \in After }
Titles == { JavaDeveloper, NoText, GoDev, <<"S","e","n","i","o","r"," ","(","G","o",")"," ","E","n","g","i","n","e","e","r">>, <<"B","a","c","k","e","n","d"," ","E","n","g","i","n","e","e","r">>, <<"G","o","l","a","n","g"," ","D","e","v","e","l","o","p","e","r">> }

CompanyTexts ==
    { Canonical, Acme, AcmeUpper, NoText,
      <<"c","a","n","o","n","i","c","a","l">>,
      <<"C","A","N","O","N","I","C","A","L"," ","L","T","D">>,
      <<"C","a","n","o","n","i","c","a","l","l","y"," ","S","p","e","a","k","i","n","g"," ","I","n","c">>,
      <<"C","r","o","s","s","o","v","e","r">>,
      <<"C","a","n","o","n">>,
      <<"G","o","o","g","l","e">>,
      <<"X","-","C","r","o","s","s","O","v","e","r"," ","L","t","d">> }

\* IsGoRelatedJob is called with a record of the title and description
CheckRelevance(title, description) ==
    /\ probe.op = ""
    /\ probe' = [op |-> "IsGoRelatedJob", title |-> title, description |-> description,
                 out |-> IsGoRelatedJob([title |-> title, description |-> description])]
    /\ UNCHANGED <<jobs, now, cfg, call>>
    /\ UNCHANGED schedVars
    /\ UNCHANGED companyVars
    /\ UNCHANGED miscVars
    /\ UNCHANGED apiVars

\* containsAny is called with a text and a list of substrings
CheckRemote(s, substrings) ==
    /\ probe.op = ""
    /\ probe' = [op |-> "containsAny", s |-> s, substrings |-> substrings,
                 out |-> containsAny(s, substrings)]
    /\ UNCHANGED <<jobs, now, cfg, call>>
    /\ UNCHANGED schedVars
    /\ UNCHANGED companyVars
    /\ UNCHANGED miscVars
    /\ UNCHANGED apiVars

\* IsBlockedCompany is called with a company name
CheckBlocked(companyName) ==
    /\ probe.op = ""
    /\ probe' = [op |-> "IsBlockedCompany", companyName |-> companyName,
                 out |-> IsBlockedCompany(companyName)]
    /\ UNCHANGED <<jobs, now, cfg, call>>
    /\ UNCHANGED schedVars
    /\ UNCHANGED companyVars
    /\ UNCHANGED miscVars
    /\ UNCHANGED apiVars

(***************************************************************************)
(* The HTMLCache (package db): a map from key to value and expiration      *)
(* under a mutex, so that every call is one step.  html.items is the map;  *)
(* n (the number of calls), op (the latest call), lastSet (per key, what   *)
(* the latest Set of it stored) and got (what the latest Get returned)     *)
(* only record what happened.                                              *)
(***************************************************************************)
\* a Get that does not look at the expiration
HTMLCacheGetStale(items, key, t) ==
    IF key \notin DOMAIN items THEN [key |-> key, value |-> "", found |-> FALSE]
    ELSE [key |-> key, value |-> items[key].value, found |-> TRUE]

\* what Get(key) returns at time t: not found without an item, or when
\* time.Now().After(item.expiration)
HTMLCacheGet(items, key, t) ==
    IF key \notin DOMAIN items THEN [key |-> key, value |-> "", found |-> FALSE]
    ELSE IF t > items[key].expiration THEN [key |-> key, value |-> "", found |-> FALSE]
    ELSE [key |-> key, value |-> items[key].value, found |-> TRUE]

\* Set: c.items[key] = &cacheItem{value, time.Now().Add(expiration)}
Set(key, value, expiration) ==
    /\ html.n < MaxCalls
    /\ LET item == [value |-> value, expiration |-> now + expiration]
           put(m) == [k \in DOMAIN m \cup {key} |-> IF k = key THEN item ELSE m[k]]
       IN  html' = [html EXCEPT !.items = put(html.items), !.n = html.n + 1,
                                !.op = "Set", !.lastSet = put(html.lastSet)]
    /\ UNCHANGED <<jobs, now, cfg, call, probe, gem>>
    /\ UNCHANGED schedVars
    /\ UNCHANGED companyVars
    /\ UNCHANGED apiVars

\* Get
Get(key) ==
    /\ html.n < MaxCalls
    /\ html' = [html EXCEPT !.n = html.n + 1, !.op = "Get",
                            !.got = HTMLCacheGet(html.items, key, now)]
    /\ UNCHANGED <<jobs, now, cfg, call, probe, gem>>
    /\ UNCHANGED schedVars
    /\ UNCHANGED companyVars
    /\ UNCHANGED apiVars

\* Cleanup: delete every item with now.After(item.expiration)
Cleanup ==
    /\ html.n < MaxCalls
    /\ LET kept == { k \in DOMAIN html.items : ~(now > html.items[k].expiration) }
       IN  html' = [html EXCEPT !.items = [k \in kept |-> html.items[k]],
                                !.n = html.n + 1, !.op = "Cleanup"]
    /\ UNCHANGED <<jobs, now, cfg, call, probe, gem>>
    /\ UNCHANGED schedVars
    /\ UNCHANGED companyVars
    /\ UNCHANGED apiVars

(***************************************************************************)
(* gemini.EnhanceJobDescriptions: the retry loop around callGeminiAPI.     *)
(* gem.attempt and gem.err are the loop's variables; n (the number of      *)
(* invocations), jobsInfo, events (the calls and delays of the invocation, *)
(* in order: "ok" and "fail" for a call of the API, "sleep" for a          *)
(* time.Sleep(retryDelay)) and result record what happened.                *)
(***************************************************************************)
maxRetries == 3

ErrAllAttempts == "all attempts to call Gemini API failed"

NoEnhance == [pc |-> "idle", n |-> 0, jobsInfo |-> << >>, attempt |-> 0,
              events |-> << >>, err |-> NoErr, result |-> {}]

\* a loop that also waits after the last attempt
AfterCallAlwaysSleeps(g, ok) ==
    IF ok THEN [g EXCEPT !.pc = "parse", !.events = Append(g.events, "ok")]
    ELSE [g EXCEPT !.pc = "sleep", !.events = Append(g.events, "fail")]

\* the loop body after callGeminiAPI returned: break on success; else the
\* delay when attempt < maxRetries, else attempt++ ends the loop and the
\* function returns the error of all attempts
AfterCall(g, ok) ==
    IF ok THEN [g EXCEPT !.pc = "parse", !.events = Append(g.events, "ok")]
    ELSE IF g.attempt < maxRetries
    THEN [g EXCEPT !.pc = "sleep", !.events = Append(g.events, "fail")]
    ELSE [g EXCEPT !.pc = "done", !.events = Append(g.events, "fail"),
                   !.attempt = g.attempt + 1, !.err = ErrAllAttempts]

\* EnhanceJobDescriptions is called: without GEMINI_API_KEY it returns an
\* error; else the loop begins with attempt := 1
EnhanceJobDescriptions(jobsInfo, apiKey) ==
    /\ gem.pc \in {"idle", "done"}
    /\ gem.n < MaxInvocations
    /\ LET begun == [NoEnhance EXCEPT !.n = gem.n + 1, !.jobsInfo = jobsInfo]
       IN  gem' = IF apiKey = ""
                  THEN [begun EXCEPT !.pc = "done", !.err = "GEMINI_API_KEY not found"]
                  ELSE [begun EXCEPT !.pc = "attempt", !.attempt = 1]
    /\ UNCHANGED <<jobs, now, cfg, call, probe, html>>
    /\ UNCHANGED schedVars
    /\ UNCHANGED companyVars
    /\ UNCHANGED apiVars

\* callGeminiAPI returns, within the 30 seconds of its context.  ok: with a
\* 200 response
callGeminiAPI(ok) ==
    /\ gem.pc = "attempt"
    /\ gem' = AfterCall(gem, ok)
    /\ UNCHANGED <<jobs, now, cfg, call, probe, html>>
    /\ UNCHANGED schedVars
    /\ UNCHANGED companyVars
    /\ UNCHANGED apiVars

\* time.Sleep(retryDelay) returns; attempt++ and the loop condition
RetryDelay ==
    /\ gem.pc = "sleep"
    /\ gem' = [gem EXCEPT !.events = Append(gem.events, "sleep"),
                          !.attempt = gem.attempt + 1,
                          !.pc = IF gem.attempt + 1 <= maxRetries THEN "attempt" ELSE "done",
                          !.err = IF gem.attempt + 1 <= maxRetries THEN NoErr
                                  ELSE ErrAllAttempts]
    /\ UNCHANGED <<jobs, now, cfg, call, probe, html>>
    /\ UNCHANGED schedVars
    /\ UNCHANGED companyVars
    /\ UNCHANGED apiVars

\* after the loop: the response is parsed; the result maps the job ids of
\* the descriptions in it to their HTML
ParseResponse(outcome, ids) ==
    /\ gem.pc = "parse"
    /\ gem' = [gem EXCEPT !.pc = "done", !.err = outcome,
                          !.result = IF outcome = NoErr THEN ids ELSE {}]
    /\ UNCHANGED <<jobs, now, cfg, call, probe, html>>
    /\ UNCHANGED schedVars
    /\ UNCHANGED companyVars
    /\ UNCHANGED apiVars

(***************************************************************************)
(* Initial state and specifications.                                       *)
(***************************************************************************)
Init ==
    /\ jobs = << >>
    /\ now = 1
    /\ cfg \in Configs
    /\ call = [c \in Callers |-> Idle]
    /\ schedule = {}
    /\ up = FALSE
    /\ cron = << >>
    /\ last = NoRun
    /\ startup = [at |-> ZeroTime, loaded |-> << >>]
    /\ shutdown = << >>
    /\ ticks = 0
    /\ details = {}
    /\ lk = [c \in Callers |-> NoLookup]
    /\ lookups = 0
    /\ signed = FALSE
    /\ served = 0
    /\ resp = NoResponse
    /\ cycles = << >>
    /\ probe = [op |-> ""]
    /\ html = [items |-> << >>, n |-> 0, op |-> "", lastSet |-> << >>,
               got |-> [key |-> "", value |-> "", found |-> FALSE]]
    /\ gem = NoEnhance

\* the gateway called directly, one call at a time
NextSave ==
    \/ \E batch \in Batches, outcome \in {NoErr, ErrBegin, ErrPrepare} :
          SaveBegin("c1", batch, outcome)
    \/ SaveStep("c1")
    \/ SaveCommit("c1")
    \/ CtxCancel("c1")

SpecSave == Init /\ [][NextSave]_vars

\* the scheduler: startups, shutdowns, firings, runs, and time
NextSched ==
    \/ \E loadOK \in BOOLEAN : StartJobScheduler(loadOK)
    \/ StopJobScheduler
    \/ \E a \in Sources :
          FetchAndSave(a, ErrFetch, << >>, CHOOSE plan \in Plans(<< >>) : TRUE)
    \/ \E a \in Sources, batch \in AdapterBatches :
          \E plan \in Plans(batch) : FetchAndSave(a, NoErr, batch, plan)
    \/ \E d \in Deltas : Tick(d)

InitSched ==
    /\ Init
    /\ cfg = [Mode |-> "production", BrandFetchAPIKey |-> "key"]

SpecSched == InitSched /\ [][NextSched]_vars

\* the batches of two sources' runs that are in flight together
RaceBatches == { <<J1>>, <<J2>>, <<J3>>, <<J2, J1>>, <<J1, J4>> }

\* the gateway called by two goroutines (two sources' scheduled runs, or a
\* scheduled run and a sync request): their statements interleave
NextRace ==
    \/ \E c \in Callers, batch \in RaceBatches, outcome \in {NoErr, ErrBegin} :
          SaveBegin(c, batch, outcome)
    \/ \E c \in Callers : SaveStep(c)
    \/ \E c \in Callers : SaveCommit(c)
    \/ \E c \in Callers : CtxCancel(c)

SpecRace == InitSched /\ [][NextRace]_vars

\* the company details cache, called by two callers
NextCompany ==
    \/ \E c \in Callers, companyName \in CompanyNames, dbOK \in BOOLEAN :
          GetOrFetchLookup(c, companyName, dbOK)
    \/ \E c \in Callers, apiOK \in BOOLEAN, saveOK \in BOOLEAN :
          GetOrFetchMiss(c, apiOK, saveOK)

InitCompany ==
    /\ Init
    /\ cfg = [Mode |-> "production", BrandFetchAPIKey |-> "key"]

SpecCompany == InitCompany /\ [][NextCompany]_vars

\* the HTTP API: requests to POST /api/jobs/sync and the goroutines
NextAPI ==
    \/ SetupRoutes
    \/ \E r \in Requests(now) : ServeSync(r)
    \/ \E i \in 1..MaxRequests :
          GoSync(i, ErrFetch, << >>, CHOOSE plan \in Plans(<< >>) : TRUE)
    \/ \E i \in 1..MaxRequests, batch \in AdapterBatches :
          \E plan \in Plans(batch) : GoSync(i, NoErr, batch, plan)

SpecAPI == InitSched /\ [][NextAPI]_vars

\* the pure functions: the adapters, each on every response body, and the
\* filters, each on every text
NextPure ==
    \/ \E adapter \in Adapters, body \in Bodies, t \in FetchTimes :
          Fetch(adapter, body, t)
    \/ \E title \in Titles, description \in Texts : CheckRelevance(title, description)
    \/ \E title \in Texts : CheckRelevance(title, NoText)
    \/ \E companyName \in CompanyTexts : CheckBlocked(companyName)
    \/ \E s \in { <<>>,
                   <<"r","e","m","o","t","e">>,
                   <<"R","E","M","O","T","E"," ","W","O","R","K">>,
                   <<"a"," ","R","e","m","o","t","e"," ","j","o","b">>,
                   <<"r","e","m","o","t","e","w","o","r","k">>,
                   <<"r","e","m","o","t">>,
                   <<"o","n","-","s","i","t","e">>,
                   <<"a"," ","W","F","H"," ","j","o","b">>,
                   <<"w"," ","f"," ","h">>,
                   <<"w","o","r","k"," ","f","r","o","m"," ","h","o","m","e">>,
                   <<"W","o","r","k"," ","F","r","o","m"," ","H","o","m","e","!">>,
                   <<"w","o","r","k"," ","f","r","o","m"," "," ","h","o","m","e">>,
                   <<"w","o","r","k","f","r","o","m","h","o","m","e">> },
          substrings \in { <<>>,
                            <<<<"r","e","m","o","t","e">>>>,
                            <<<<"r","e","m","o","t","e">>, <<"w","o","r","k"," ","f","r","o","m"," ","h","o","m","e">>, <<"w","f","h">>>>,
                            <<<<"R","E","M","O","T","E">>>>,
                            <<<<"r","e","m","o","t","e"," ","w","o","r","k">>>>,
                            <<<<"W","f","h">>, <<"x">>>> } :
          CheckRemote(s, substrings)

SpecPure == InitSched /\ [][NextPure]_vars

\* the HTMLCache: calls with two keys, two values and expirations of -1, 0
\* and 1 minute, and time
NextCache ==
    \/ \E key \in {"k1", "k2"}, value \in {"v1", "v2"},
          expiration \in {-1 * Minute, 0, 1 * Minute} :
          Set(key, value, expiration)
    \/ \E key \in {"k1", "k2"} : Get(key)
    \/ Cleanup
    \/ \E d \in Deltas : Tick(d)

SpecCache == InitSched /\ [][NextCache]_vars

\* EnhanceJobDescriptions, invoked with and without an API key
NextGemini ==
    \/ \E jobsInfo \in {<< >>, <<"a">>, <<"a", "b">>}, apiKey \in {"", "key"} :
          EnhanceJobDescriptions(jobsInfo, apiKey)
    \/ \E ok \in BOOLEAN : callGeminiAPI(ok)
    \/ RetryDelay
    \/ \E outcome \in {NoErr, "error unmarshaling response",
                        "gemini API blocked the request",
                        "no content in Gemini API response",
                        "error unmarshaling enhanced descriptions"},
          ids \in {{}, {"a"}, {"a", "b"}} : ParseResponse(outcome, ids)

\* every call of the API returns (its context times out after 30 seconds),
\* every delay ends, and parsing ends
SpecGemini ==
    /\ InitSched /\ [][NextGemini]_vars
    /\ WF_vars(\E ok \in BOOLEAN : callGeminiAPI(ok))
    /\ WF_vars(RetryDelay)
    /\ WF_vars(\E ids \in {{}, {"a"}, {"a", "b"}} : ParseResponse(NoErr, ids))

(***************************************************************************)
(* Properties of SaveJobsToDB (specification SpecSave).                    *)
(***************************************************************************)
Skipped(st) == st.skippedBlockedCompanies + st.skippedNonGoJobs + st.skippedDuplicates

DistinctIds(batch) ==
    \A i, j \in 1..Len(batch) : i # j => batch[i].id # batch[j].id

\* C1: when an upsert fails, SaveJobsToDB returns that error with the count
\* of the records upserted before the failing one (the records before it
\* that no filter skipped), and the jobs table is what it was when the call
\* began: nothing the call wrote is persisted.
C1_AllOrNothing ==
    \A c \in Callers :
        (call[c].pc = "done" /\ call[c].err = ErrExec) =>
            /\ jobs = call[c].snap
            /\ call[c].count = call[c].idx - Skipped(call[c])
            /\ call[c].count = Cardinality(call[c].saved)

\* an upsert failed after an earlier record of the batch had been upserted
C1_Witness ==
    \E c \in Callers :
        /\ call[c].pc = "done" /\ call[c].err = ErrExec
        /\ call[c].count >= 1
        /\ jobs = call[c].snap

\* C2: a call whose context was cancelled persists nothing; when the
\* cancellation came mid-batch, after N records had been upserted and before
\* the last record's iteration, it returns the cancellation error with a
\* count <= N.
C2_CancelRollsBack ==
    \A c \in Callers :
        (call[c].pc = "done" /\ call[c].ctxDone) =>
            /\ jobs = call[c].snap
            /\ call[c].err # NoErr
            /\ call[c].cancelIdx < Len(call[c].batch) =>
                  /\ call[c].err = ErrCanceled
                  /\ call[c].count <= call[c].cancelCount

\* the context was cancelled after one record of two had been upserted
C2_Witness ==
    \E c \in Callers :
        /\ call[c].pc = "done" /\ call[c].err = ErrCanceled
        /\ call[c].cancelCount >= 1
        /\ call[c].cancelIdx < Len(call[c].batch)
        /\ jobs = call[c].snap

NaturalKeyUnique(table) ==
    \A i, j \in DOMAIN table : i # j => ~SameNaturalKey(table[i], table[j])

\* C3: no two stored rows share a natural key (lower-cased title,
\* lower-cased company, year and month of posted_at), here after one
\* successful call on the empty table in which no duplicate query failed.
C3_NaturalKeyUnique ==
    \A c \in Callers :
        (/\ call[c].pc = "done" /\ call[c].err = NoErr
         /\ call[c].dupErrs = 0
         /\ call[c].snap = << >>) => NaturalKeyUnique(jobs)

\* C4 as claimed: on the second call with the same batch the updated_at of
\* every row the first call wrote advances.
C4_UpdatedAtAdvances ==
    \A c \in Callers :
        (call[c].pc = "done" /\ call[c].again /\ call[c].err = NoErr) =>
            \A i \in call[c].prevSaved :
                LET id == call[c].batch[i].id
                IN  /\ id \in DOMAIN jobs
                    /\ jobs[id].updated_at > call[c].snap[id].updated_at

\* C4 as amended: a second call with the same batch (pairwise distinct ids,
\* no failing duplicate query) skips every record the first call upserted as
\* a duplicate of its own row: that row stays as the first call left it,
\* updated_at included.
C4_SecondCallSkips ==
    \A c \in Callers :
        (/\ call[c].pc = "done" /\ call[c].again
         /\ call[c].dupErrs = 0
         /\ DistinctIds(call[c].batch)) =>
            \A i \in call[c].prevSaved :
                LET id == call[c].batch[i].id
                IN  /\ i \notin call[c].saved
                    /\ id \in DOMAIN jobs
                    /\ id \in DOMAIN call[c].snap
                    /\ jobs[id] = call[c].snap[id]

\* a successful second call that skipped, as duplicates, the records the
\* first call had upserted
C4_Witness ==
    \E c \in Callers :
        /\ call[c].pc = "done" /\ call[c].again /\ call[c].err = NoErr
        /\ call[c].dupErrs = 0
        /\ DistinctIds(call[c].batch)
        /\ call[c].prevSaved # {}
        /\ call[c].skippedDuplicates = Cardinality(call[c].prevSaved)
        /\ call[c].count = 0

\* op is one of the calls the loop body made for a record
Made(ops, op) == \E k \in 1..Len(ops) : ops[k] = op

\* the rows a call can see or has written: committed, and of its transaction
Rows(c) == { jobs[id] : id \in DOMAIN jobs } \cup
           { call[c].tx[id] : id \in DOMAIN call[c].tx }

\* C13: the blocklist test is the first call made for every record; for a
\* record of a blocked company it is the only one (no relevance test, no
\* duplicate query, no enrichment, no upsert), and no row, committed or
\* written by an open transaction, has a company containing a blocked term.
C13_BlocklistFirstAndFinal ==
    \A c \in Callers :
        /\ \A i \in DOMAIN call[c].ops :
              /\ call[c].ops[i][1] = "IsBlockedCompany"
              /\ IsBlockedCompany(call[c].batch[i].company) =>
                    /\ call[c].ops[i] = <<"IsBlockedCompany">>
                    /\ i \notin call[c].saved
        /\ \A row \in Rows(c) :
              \A blocked \in blockedCompanies : ~Contains(ToLower(row.company), blocked)

\* a successful call that skipped a record of a blocked company and stored
\* another record
C13_Witness ==
    \E c \in Callers :
        /\ call[c].pc = "done" /\ call[c].err = NoErr
        /\ call[c].skippedBlockedCompanies >= 1
        /\ call[c].count >= 1
        /\ jobs # << >>

\* C14: for a record that fails the relevance test the loop body makes no
\* duplicate query, no enrichment call and no upsert, and every row,
\* committed or written by an open transaction, is Go-related.
C14_NonGoNeverStored ==
    \A c \in Callers :
        /\ \A i \in DOMAIN call[c].ops :
              ~IsGoRelatedJob(call[c].batch[i]) =>
                  /\ ~Made(call[c].ops[i], "IsDuplicateJob")
                  /\ ~Made(call[c].ops[i], "FetchCompanyLogo")
                  /\ ~Made(call[c].ops[i], "ExecContext")
                  /\ i \notin call[c].saved
        /\ \A row \in Rows(c) : IsGoRelatedJob(row)

\* a successful call that skipped a record that is not Go-related, after
\* the relevance test, and stored another record
C14_Witness ==
    \E c \in Callers :
        /\ call[c].pc = "done" /\ call[c].err = NoErr
        /\ call[c].skippedNonGoJobs >= 1
        /\ call[c].count >= 1
        /\ \E i \in DOMAIN call[c].ops :
              call[c].ops[i] = <<"IsBlockedCompany", "IsGoRelatedJob">>

\* C15: a record whose duplicate query failed goes on to the enrichment
\* (when the enrichment guard holds) and to the upsert; the call does not
\* end with that record unless its upsert fails, and when the call succeeds
\* the record is stored.
C15_DuplicateCheckFailOpen ==
    \A c \in Callers :
        \A i \in DOMAIN call[c].ops :
            Made(call[c].ops[i], "IsDuplicateJob failed") =>
                /\ Made(call[c].ops[i], "ExecContext")
                /\ WantsLogo(cfg, call[c].batch[i]) =>
                      Made(call[c].ops[i], "FetchCompanyLogo")
                /\ ~Made(call[c].ops[i], "ExecContext failed") =>
                      /\ i \in call[c].saved
                      /\ call[c].idx >= i
                /\ (call[c].pc = "done" /\ call[c].err = NoErr) =>
                      call[c].batch[i].id \in DOMAIN jobs

\* a successful call in which the duplicate query of a record failed while
\* the table held a row with its natural key, and the record was stored
C15_Witness ==
    \E c \in Callers :
        /\ call[c].pc = "done" /\ call[c].err = NoErr
        /\ \E i \in call[c].saved :
              /\ Made(call[c].ops[i], "IsDuplicateJob failed")
              /\ IsDuplicateJob(call[c].snap, call[c].batch[i])
              /\ call[c].batch[i].id \in DOMAIN jobs

\* candidates for the duplicate query: the postings of the pool in every
\* letter case and month of the pool, and in another year
Mar2025 == [y |-> 2025, m |-> 3, d |-> 15]
Candidates ==
    { Job("z", t, co, p, "") : t \in {GoDev, goDevLower}, co \in {Acme, AcmeUpper},
                               p \in {Mar15, Mar02, Apr01, Mar2025} }

\* a row of table has the title and company of job, letter case aside, and
\* a posted_at in the month and year of job's
StoredThisMonth(table, job) ==
    \E id \in DOMAIN table :
        /\ ToLower(table[id].title) = ToLower(job.title)
        /\ ToLower(table[id].company) = ToLower(job.company)
        /\ table[id].posted_at.y = job.posted_at.y
        /\ table[id].posted_at.m = job.posted_at.m

\* C16: the duplicate query finds a candidate exactly when a committed row
\* has its title and company, letter case aside, and a posted_at in the
\* same month and year; a record whose duplicate query succeeded is
\* rejected when it is found and goes on to the upsert when it is not.
C16_DuplicateByMonth ==
    /\ \A job \in Candidates \cup JobPool :
          IsDuplicateJob(jobs, job) <=> StoredThisMonth(jobs, job)
    /\ \A c \in Callers : \A i \in DOMAIN call[c].ops :
          (/\ Made(call[c].ops[i], "IsDuplicateJob")
           /\ ~Made(call[c].ops[i], "IsDuplicateJob failed")) =>
              (Made(call[c].ops[i], "ExecContext") <=>
                  ~StoredThisMonth(call[c].snap, call[c].batch[i]))

\* the table held 'Go Dev' at 'Acme' posted 2024-03-15; a call rejected
\* 'go dev' at 'ACME' posted 2024-03-02 and stored 'Go Dev' at 'Acme'
\* posted 2024-04-01
C16_Witness ==
    \E c \in Callers :
        /\ call[c].pc = "done" /\ call[c].err = NoErr /\ call[c].dupErrs = 0
        /\ \E id \in DOMAIN call[c].snap :
              /\ call[c].snap[id].title = GoDev /\ call[c].snap[id].company = Acme
              /\ call[c].snap[id].posted_at = Mar15
        /\ \E i, j \in DOMAIN call[c].ops :
              /\ call[c].batch[i] = J2 /\ i \notin call[c].saved
              /\ call[c].batch[j] = J3 /\ j \in call[c].saved

\* position i is the last position of the batch of c, among those upserted,
\* with the id of its record
LastSaved(c, i) ==
    /\ i \in call[c].saved
    /\ \A j \in call[c].saved : call[c].batch[j].id = call[c].batch[i].id => j <= i

\* C17: a record whose logo lookup failed goes on to the upsert; the call
\* does not end with that record unless its upsert fails, and when the call
\* succeeds the record is stored, without a logo.
C17_EnrichmentFailureNonFatal ==
    \A c \in Callers :
        \A i \in DOMAIN call[c].ops :
            Made(call[c].ops[i], "FetchCompanyLogo failed") =>
                /\ Made(call[c].ops[i], "ExecContext")
                /\ ~Made(call[c].ops[i], "ExecContext failed") =>
                      /\ i \in call[c].saved
                      /\ call[c].idx >= i
                /\ (call[c].pc = "done" /\ call[c].err = NoErr /\ LastSaved(c, i)) =>
                      /\ call[c].batch[i].id \in DOMAIN jobs
                      /\ jobs[call[c].batch[i].id].company_logo = ""

\* a successful call that stored, without a logo, a record whose logo
\* lookup failed, and went on to the next record
C17_Witness ==
    \E c \in Callers :
        /\ call[c].pc = "done" /\ call[c].err = NoErr
        /\ \E i \in call[c].saved :
              /\ Made(call[c].ops[i], "FetchCompanyLogo failed")
              /\ LastSaved(c, i)
              /\ jobs[call[c].batch[i].id].company_logo = ""
              /\ i < Len(call[c].batch)

\* C18: the loop body calls the branding API only in production mode and
\* with a branding API key configured.
C18_LogoOnlyInProduction ==
    \A c \in Callers :
        \A i \in DOMAIN call[c].ops :
            Made(call[c].ops[i], "FetchCompanyLogo") =>
                (cfg.Mode = "production" /\ cfg.BrandFetchAPIKey # "")

\* C19: after a successful call, the row of a record that was upserted on
\* an id the table already held has the record's value in every column
\* but id and created_at (company_logo as enriched), updated_at is the
\* time of the upsert, and created_at is what it was.
C19_UpsertOverwritesAll ==
    \A c \in Callers :
        (call[c].pc = "done" /\ call[c].err = NoErr) =>
            \A i \in call[c].saved :
                LET job == call[c].batch[i]
                IN  (LastSaved(c, i) /\ job.id \in DOMAIN call[c].snap) =>
                        /\ jobs[job.id].title = job.title
                        /\ jobs[job.id].company = job.company
                        /\ jobs[job.id].description = job.description
                        /\ jobs[job.id].posted_at = job.posted_at
                        /\ jobs[job.id].company_url = job.company_url
                        /\ Made(call[c].ops[i], "FetchCompanyLogo")
                              \/ jobs[job.id].company_logo = job.company_logo
                        /\ jobs[job.id].updated_at = call[c].txTime
                        /\ jobs[job.id].created_at = call[c].snap[job.id].created_at

\* the ids of the rows of the table that the call of c wrote
Written(c) ==
    { id \in DOMAIN jobs : id \notin DOMAIN call[c].snap \/ jobs[id] # call[c].snap[id] }

\* C28: when SaveJobsToDB returns without error, its count is the number of
\* records it upserted, each of them is in the committed table and nothing
\* else was written, and count, blocked, non-Go and duplicate skips add up
\* to the size of the batch.
C28_CountAccounting ==
    \A c \in Callers :
        (call[c].pc = "done" /\ call[c].err = NoErr) =>
            /\ call[c].count = Cardinality(call[c].saved)
            /\ Written(c) = { call[c].batch[i].id : i \in call[c].saved }
            /\ DistinctIds(call[c].batch) => Cardinality(Written(c)) = call[c].count
            /\ call[c].count + call[c].skippedBlockedCompanies
                  + call[c].skippedNonGoJobs + call[c].skippedDuplicates
               = Len(call[c].batch)

\* a call returned without error after it saved one record of two and
\* skipped the other
C28_Witness ==
    \E c \in Callers :
        /\ call[c].pc = "done" /\ call[c].err = NoErr
        /\ Len(call[c].batch) = 2 /\ call[c].count = 1
        /\ Cardinality(Written(c)) = 1

(***************************************************************************)
(* Properties of two calls of SaveJobsToDB in flight together              *)
(* (specification SpecRace).                                              *)
(***************************************************************************)
IdsOf(batch) == { batch[i].id : i \in DOMAIN batch }

\* both calls returned without error, and each began before the other
\* committed: the table each saw at its beginning has none of the rows the
\* other wrote
Overlapped(c, d) ==
    /\ call[c].pc = "done" /\ call[c].err = NoErr /\ call[c].saved # {}
    /\ call[d].pc = "done" /\ call[d].err = NoErr /\ call[d].saved # {}
    /\ \A i \in call[c].saved : call[c].batch[i].id \notin DOMAIN call[d].snap
    /\ \A i \in call[d].saved : call[d].batch[i].id \notin DOMAIN call[c].snap

\* C31: the duplicate test of a call sees the committed rows and nothing
\* else: whenever an iteration runs the duplicate query and the query does
\* not fail, the record is skipped as a duplicate exactly when a committed
\* row has its natural key, whatever the open transactions (the call's own
\* and the other call's) have written.  So two calls in flight together
\* can each store a record of the same natural key (the witness).
C31_DuplicateCheckSeesCommitted ==
    [][\A c \in Callers :
          (call[c].pc = "loop" /\ Len(call'[c].ops) = Len(call[c].ops) + 1) =>
              LET job == call[c].batch[call[c].idx + 1]
                  ops == call'[c].ops[Len(call'[c].ops)]
              IN  (Made(ops, "IsDuplicateJob") /\ ~Made(ops, "IsDuplicateJob failed")) =>
                      ((call'[c].skippedDuplicates = call[c].skippedDuplicates + 1)
                          <=> \E id \in DOMAIN jobs : SameNaturalKey(jobs[id], job))]_vars

\* two calls were in flight together, no duplicate query failed, each
\* stored a record, and the two committed rows have the same natural key
C31_Witness ==
    /\ Overlapped("c1", "c2")
    /\ call["c1"].dupErrs = 0 /\ call["c2"].dupErrs = 0
    /\ \E i \in call["c1"].saved, j \in call["c2"].saved :
          LET a == call["c1"].batch[i].id
              b == call["c2"].batch[j].id
          IN  /\ a # b
              /\ a \in DOMAIN jobs /\ b \in DOMAIN jobs
              /\ SameNaturalKey(jobs[a], call["c2"].batch[j])

\* C32: a step changes a row of the jobs table only when it is the commit
\* of a call, and then only rows whose id is the id of a record of that
\* call's batch that the call upserted; it removes no row.  So of two calls
\* whose batches share no id (the adapters give every record a fresh id),
\* neither changes or removes a row that the other wrote.
C32_TransactionFootprint ==
    [][/\ \A id \in DOMAIN jobs \cup DOMAIN jobs' :
            (id \notin DOMAIN jobs \/ id \notin DOMAIN jobs' \/ jobs'[id] # jobs[id]) =>
                /\ id \in DOMAIN jobs'
                /\ \E c \in Callers :
                      /\ call[c].pc = "loop" /\ call'[c].pc = "done"
                      /\ \E i \in call[c].saved : call[c].batch[i].id = id
       /\ \A c \in Callers, d \in Callers :
            (/\ c # d /\ call'[c] # call[c]
             /\ IdsOf(call[c].batch) \cap IdsOf(call[d].batch) = {}) =>
                /\ call'[d].tx = call[d].tx
                /\ \A id \in IdsOf(call[d].batch) \cap DOMAIN jobs :
                      id \in DOMAIN jobs' /\ jobs'[id] = jobs[id]]_vars

\* two calls whose batches share no id were in flight together and both
\* committed; the row of the one that committed first is as that call
\* wrote it
C32_Witness ==
    /\ Overlapped("c1", "c2")
    /\ IdsOf(call["c1"].batch) \cap IdsOf(call["c2"].batch) = {}
    /\ \A i \in call["c1"].saved : call["c1"].batch[i].id \in DOMAIN jobs
    /\ \A j \in call["c2"].saved :
          /\ call["c2"].batch[j].id \in DOMAIN jobs
          /\ jobs[call["c2"].batch[j].id].created_at = call["c2"].txTime

(***************************************************************************)
(* Properties of the scheduler (specification SpecSched).                  *)
(***************************************************************************)
\* the persisted row of a source (the table holds one)
Row(a) == CHOOSE r \in schedule : r.ApiName = a

\* the source's job of the started scheduler has not fired yet
NotFired(a) == cron[a].runs = 0

\* C5: when StartJobScheduler loaded a row for a source whose next_run_time
\* is non-zero and later than now, the job of that source is started at the
\* persisted time, and that is its first firing time.
C5_RestartHonoursPersisted ==
    up => \A a \in DOMAIN startup.loaded :
            (startup.loaded[a] # ZeroTime /\ startup.loaded[a] > startup.at) =>
                /\ cron[a].startAt = startup.loaded[a]
                /\ NotFired(a) => cron[a].nextRun = startup.loaded[a]

\* a restarted scheduler whose job waits for a persisted time that is
\* neither one minute nor one hour after the startup
C5_Witness ==
    /\ up
    /\ \E a \in DOMAIN startup.loaded :
          /\ startup.loaded[a] > startup.at
          /\ startup.loaded[a] # startup.at + 1 * Hour
          /\ startup.loaded[a] # startup.at + 1 * Minute
          /\ NotFired(a)
          /\ cron[a].nextRun = startup.loaded[a]

\* C6: after StopJobScheduler the row of every source holds the next-run
\* time its job had in memory at the shutdown.
C6_ShutdownPersists ==
    (~up /\ shutdown # << >>) =>
        \A a \in Sources : Row(a).NextRunTime = shutdown[a]

C8_FirstRunDamping ==
    up => \A a \in Sources \ DOMAIN startup.loaded :
            /\ cron[a].startAt = startup.at + 1 * Hour
            /\ NotFired(a) => cron[a].nextRun = startup.at + 1 * Hour

\* the first startup: no source has a row, every job waits one hour
C8_Witness ==
    /\ up
    /\ last = NoRun
    /\ DOMAIN startup.loaded = {}
    /\ \A a \in Sources : NotFired(a) /\ cron[a].nextRun = startup.at + 1 * Hour

Fires(a) == up /\ up' /\ cron'[a].runs = cron[a].runs + 1

C30_NextDueInFuture ==
    /\ up => \A a \in Sources : cron[a].startAt > startup.at
    /\ \A r \in schedule :
          r.LastRunTime # ZeroTime => r.NextRunTime > r.LastRunTime

\* C36: a startup writes a job_schedule_info row only for a source that
\* has none; the row of a source that has one keeps its last_run_time,
\* status, last_run_count and last_error_msg, also when the rows could not
\* be loaded.
C36_StartupPreservesRunState ==
    [][(~up /\ up') =>
          /\ \A r \in schedule :
                \E q \in schedule' :
                    /\ q.ApiName = r.ApiName
                    /\ q.LastRunTime = r.LastRunTime
                    /\ q.Status = r.Status
                    /\ q.LastRunCount = r.LastRunCount
                    /\ q.LastErrorMsg = r.LastErrorMsg
          /\ \A q \in schedule' \ schedule :
                \A r \in schedule : r.ApiName # q.ApiName]_vars

(***************************************************************************)
(* Properties of the company details cache (specification SpecCompany).    *)
(***************************************************************************)
\* the rows of table that the lower-cased name identifies
RowsOf(table, companyName) ==
    { r \in table : r.company_id = ToLower(companyName) }

\* caller c returns from the query with a row, or goes on to the API
Hit(c) == lk'[c].n # lk[c].n /\ lk'[c].pc = "done" /\ lk'[c].err = NoErr
Miss(c) == lk'[c].n # lk[c].n /\ lk'[c].pc = "miss"

\* C20: a call that finds rows of the lower-cased company name returns one
\* with the greatest updated_at, calls no API and leaves the table as it
\* is; the API is called only after a query that found no such row, and the
\* table changes only by the row such a call fetched.
C20_ReadThroughCache ==
    [][\A c \in Callers :
          /\ Hit(c) =>
                /\ lk'[c].result # {}
                /\ lk'[c].result \subseteq RowsOf(details, lk'[c].companyName)
                /\ \A r \in lk'[c].result :
                      \A q \in RowsOf(details, lk'[c].companyName) :
                          q.updated_at <= r.updated_at
                /\ ~lk'[c].apiCalled
                /\ details' = details
          /\ Miss(c) => RowsOf(details, lk'[c].companyName) = {}
          /\ (lk'[c].apiCalled /\ ~lk[c].apiCalled) =>
                /\ lk[c].pc = "miss"
                /\ RowsOf(lk[c].seen, lk[c].companyName) = {}
                /\ details' \in {details, details \cup lk'[c].result}
          /\ details' # details =>
                \E d \in Callers : lk'[d].apiCalled /\ ~lk[d].apiCalled]_vars

\* a call found two rows of the company, stored by two earlier calls that
\* both missed, under a name in another letter case, and returned the newer
C20_Witness ==
    \E c \in Callers :
        /\ lk[c].pc = "done" /\ lk[c].err = NoErr /\ ~lk[c].apiCalled
        /\ \E r \in lk[c].result, q \in lk[c].seen :
              /\ q.company_id = r.company_id
              /\ q.updated_at < r.updated_at
              /\ r.name # lk[c].companyName
        /\ details = lk[c].seen

\* C34: a call of GetOrFetchCompanyDetails that missed returns, when the
\* external fetch succeeds, the fetched details of the company it was asked
\* for and no error, whether or not they could be saved (the table is then
\* either unchanged or holds them as its one new row); when the fetch
\* fails it returns the fetch error and no details, and the table is
\* unchanged.
C34_BestEffortCacheWrite ==
    [][\A c \in Callers :
          (lk[c].pc = "miss" /\ lk'[c].pc = "done") =>
              /\ lk'[c].apiCalled
              /\ ~lk'[c].apiErr =>
                    /\ lk'[c].err = NoErr
                    /\ \E r \in lk'[c].result :
                          /\ lk'[c].result = {r}
                          /\ r.name = lk[c].companyName
                          /\ r.company_id = ToLower(lk[c].companyName)
                          /\ IF lk'[c].saveErr THEN details' = details
                             ELSE details' \ details = {r}
              /\ lk'[c].apiErr =>
                    /\ lk'[c].err = ErrDetailsAPI
                    /\ lk'[c].result = {} /\ details' = details]_vars

\* a call missed, fetched the details from the API and could not save them:
\* it returned them without error and the table has no row of them
C34_Witness ==
    \E c \in Callers :
        /\ lk[c].pc = "done" /\ lk[c].apiCalled /\ lk[c].saveErr
        /\ lk[c].err = NoErr /\ lk[c].result # {}
        /\ details = lk[c].seen

(***************************************************************************)
(* Properties of the HTTP API (specification SpecAPI).                     *)
(***************************************************************************)
\* the FetchAndSave function of a source name
CycleOf(source) ==
    CASE source = "jsearch" -> "FetchAndSaveJSearch"
      [] source = "indeed" -> "FetchAndSaveIndeed"
      [] source = "linkedin" -> "FetchAndSaveLinkedIn"
      [] source = "apify_linkedin" -> "FetchAndSaveApifyLinkedIn"

\* C21: SyncJobs answers a request that names one of the four sources with
\* success and starts one goroutine, which runs the cycle of exactly that
\* source, whatever that cycle's outcome; a request with another non-empty
\* source is answered 400 and starts no goroutine.
C21_SyncValidation ==
    /\ resp.handler =>
          /\ resp.req.source \in validSources =>
                /\ resp.status = 200 /\ resp.success
                /\ resp.spawned \in DOMAIN cycles
                /\ cycles[resp.spawned].source = resp.req.source
          /\ (resp.req.source # "" /\ resp.req.source \notin validSources) =>
                resp.status = 400 /\ ~resp.success /\ resp.spawned = 0
    /\ Len(cycles) <= served
    /\ \A i \in DOMAIN cycles :
          /\ cycles[i].source \in validSources \cup {""}
          /\ cycles[i].pc = "done" =>
                cycles[i].called = IF cycles[i].source \in validSources
                                   THEN {CycleOf(cycles[i].source)} ELSE {}

\* a request naming apify_linkedin was answered with success, and its
\* goroutine ran that cycle, which failed; another request with an unknown
\* source was answered 400 before
C21_Witness ==
    /\ resp.handler /\ resp.status = 200 /\ resp.req.source = "apify_linkedin"
    /\ served = 2 /\ Len(cycles) = 1
    /\ cycles[1].pc = "done" /\ cycles[1].outcome = "Failed"
    /\ cycles[1].called = {"FetchAndSaveApifyLinkedIn"}

\* the API key a request presents: the X-API-Key header, else api_key
Presented(r) == IF r.header # "" THEN r.header ELSE r.query

\* C27: a request reaches the handler only if it presents the configured
\* API key and, under the middleware that validates signatures, carries a
\* timestamp at most 5 minutes before and at most 5 minutes after the
\* server time and the HMAC-SHA256 of it under the API key; every other
\* request is answered 401 without the handler.
C27_RequestAuthentication ==
    served > 0 =>
        LET r == resp.req
            authentic ==
                /\ Presented(r) = APIKey
                /\ signed =>
                      /\ r.timestamp.fmt = "rfc3339"
                      /\ now - r.timestamp.t <= 5 * Minute
                      /\ r.timestamp.t - now <= 5 * Minute
                      /\ r.signature = HMAC(APIKey, "", r.timestamp)
        IN  /\ resp.handler => authentic
            /\ ~authentic => resp.status = 401 /\ ~resp.handler

(***************************************************************************)
(* Properties of the source adapters (specification SpecPure).            *)
(***************************************************************************)
\* e is the day one calendar month after t: the same day of the next
\* month, or as many days into the month after it as that day lies beyond
\* the end of the next month
OneMonthLater(t, e) ==
    LET y1 == IF t.m = 12 THEN t.y + 1 ELSE t.y
        m1 == IF t.m = 12 THEN 1 ELSE t.m + 1
    IN  IF t.d <= DaysIn(y1, m1)
        THEN e = [y |-> y1, m |-> m1, d |-> t.d]
        ELSE e = [y |-> y1, m |-> m1 + 1, d |-> t.d - DaysIn(y1, m1)]

\* the records are those of the items, in their order, each with an id, a
\* source, the fetch time and an expiry one month later
ShapeOfItems(fetched, items, t) ==
    /\ Len(fetched) = Len(items)
    /\ \A i \in DOMAIN fetched :
          /\ fetched[i].title = items[i].title
          /\ fetched[i].id # NoText
          /\ fetched[i].source # ""
          /\ fetched[i].date_gotten = t
          /\ OneMonthLater(fetched[i].date_gotten, fetched[i].exp_date)

\* C22 as stated: whenever an adapter returns without error, its records
\* are those of the items of the response, in order, each with a non-empty
\* id and source, date_gotten the fetch time and exp_date one month later.
C22_AdapterOutputShape ==
    (probe.op \in Adapters /\ probe.out.err = NoErr) =>
        ShapeOfItems(probe.out.jobs, probe.body.items, probe.t)

\* C22 amended: the same, except for a response to FetchIndeedJobs whose
\* first item carries an error message: for that the adapter returns no
\* records and no error.
C22_AdapterOutputShapeAmended ==
    (probe.op \in Adapters /\ probe.out.err = NoErr) =>
        IF probe.op = "FetchIndeedJobs" /\ ErrorResp(probe.body)
        THEN probe.out.jobs = << >>
        ELSE ShapeOfItems(probe.out.jobs, probe.body.items, probe.t)

\* FetchIndeedJobs returned two records for two items, one of them without
\* a vendor id, fetched in December
C22_Witness ==
    /\ probe.op = "FetchIndeedJobs" /\ probe.out.err = NoErr
    /\ Len(probe.out.jobs) = 2
    /\ probe.body.items[2].id = NoText
    /\ probe.out.jobs[1].title # probe.out.jobs[2].title
    /\ probe.t.m = 12 /\ probe.out.jobs[2].exp_date.y = probe.t.y + 1

\* the three shapes of a LinkedIn body: an array of objects, the envelope,
\* a JSON string whose text is the envelope
IsArrayShape(body) == body.kind = "array" /\ AllObjects(body.items)
IsEnvelopeShape(body) == body.kind = "envelope" /\ AllTyped(body.items)
IsStringShape(body) ==
    body.kind = "string" /\ body.inner = "envelope" /\ AllTyped(body.items)

LinkedInJobs(fetched, items) ==
    /\ Len(fetched) = Len(items)
    /\ \A i \in DOMAIN fetched :
          fetched[i].title = items[i].title /\ fetched[i].source = "linkedin"

\* C23 as stated: FetchLinkedInJobs returns the jobs of the body when the
\* body is an array of objects, the envelope, or a JSON string of the
\* envelope, and an error only when it is none of them.
C23_LinkedInShapeTolerance ==
    probe.op = "FetchLinkedInJobs" =>
        IF IsArrayShape(probe.body) \/ IsEnvelopeShape(probe.body)
              \/ IsStringShape(probe.body)
        THEN probe.out.err = NoErr /\ LinkedInJobs(probe.out.jobs, probe.body.items)
        ELSE probe.out.err # NoErr

\* C23 amended: FetchLinkedInJobs returns the jobs of the body when the
\* body is a non-empty array of objects, the envelope with at least one
\* item, or text beginning with a quote that is a JSON string of such an
\* envelope; in every other case it returns an error and no jobs.
C23_LinkedInShapeToleranceAmended ==
    probe.op = "FetchLinkedInJobs" =>
        IF /\ Len(probe.body.items) > 0
           /\ \/ IsArrayShape(probe.body)
              \/ IsEnvelopeShape(probe.body)
              \/ IsStringShape(probe.body) /\ probe.body.lead = ""
        THEN probe.out.err = NoErr /\ LinkedInJobs(probe.out.jobs, probe.body.items)
        ELSE probe.out.err # NoErr /\ probe.out.jobs = << >>

\* a body that is a JSON string of an envelope of two items gave two jobs
C23_Witness ==
    /\ probe.op = "FetchLinkedInJobs" /\ probe.body.kind = "string"
    /\ probe.out.err = NoErr /\ Len(probe.out.jobs) = 2

\* the vendor's error envelope: an array of objects whose first has a
\* string "error" field
IsErrorEnvelope(body) ==
    /\ body.kind = "array" /\ Len(body.items) > 0
    /\ \A i \in DOMAIN body.items : body.items[i].object
    /\ body.items[1].error # NoText

\* what FetchAndSave* records of a run whose adapter returned out with no
\* records: "Failed" with count 0 on an error, else the count and error of
\* SaveJobsToDB on the empty batch
RunsOfEmpty(out) ==
    IF out.err # NoErr
    THEN { [status |-> RunStatus(out.err, NoErr), count |-> 0] }
    ELSE { [status |-> RunStatus(out.err, res.err), count |-> res.count] :
              res \in { SaveJobsToDB(jobs, << >>, cfg, now, plan) :
                           plan \in Plans(<< >>) \cup
                                    { [cancelAt |-> -1, failAt |-> 0, dupErr |-> FALSE,
                                       logo |-> "", commitErr |-> ErrCommit] } } }

\* C33: FetchIndeedJobs returns an empty slice and no error when the
\* response is the vendor's error envelope or an empty array, and that run
\* is recorded with count 0 and a status other than "Failed"; it returns an
\* error and no records when the transport fails or the body is no JSON;
\* it never returns records together with an error.
C33_IndeedZeroResults ==
    probe.op = "FetchIndeedJobs" =>
        /\ (\/ IsErrorEnvelope(probe.body)
            \/ probe.body.kind = "array" /\ probe.body.items = << >>) =>
                /\ probe.out.jobs = << >> /\ probe.out.err = NoErr
                /\ \A run \in RunsOfEmpty(probe.out) :
                      run.count = 0 /\ run.status # "Failed"
        /\ probe.body.kind \in {"none", "malformed"} =>
                probe.out.jobs = << >> /\ probe.out.err # NoErr
        /\ probe.out.err # NoErr => probe.out.jobs = << >>

\* FetchIndeedJobs was given an empty array and returned no records and no
\* error
C33_Witness ==
    /\ probe.op = "FetchIndeedJobs"
    /\ probe.body.kind = "array" /\ probe.body.items = << >>
    /\ probe.out = Fetched(<< >>, NoErr)

\* C37: FetchLinkedInJobs and FetchApifyLinkedInJobs never return an empty
\* slice without an error; a response that parses and holds zero items
\* makes them return an error, and that run is recorded as "Failed" with
\* count 0.
C37_LinkedInEmptyIsError ==
    probe.op \in {"FetchLinkedInJobs", "FetchApifyLinkedInJobs"} =>
        /\ probe.out.jobs = << >> =>
                /\ probe.out.err # NoErr
                /\ RunsOfEmpty(probe.out) = { [status |-> "Failed", count |-> 0] }
        /\ (probe.body.kind # "none" /\ probe.body.items = << >>) =>
                probe.out.jobs = << >> /\ probe.out.err # NoErr

\* FetchApifyLinkedInJobs was given an empty array, which parses, and
\* returned an error
C37_Witness ==
    /\ probe.op = "FetchApifyLinkedInJobs"
    /\ probe.body.kind = "array" /\ probe.body.items = << >> /\ probe.body.lead = ""
    /\ probe.out.jobs = << >> /\ probe.out.err = "no data returned"

\* sub occurs in s, letter case aside, as a contiguous run of characters
Occurs(sub, s) ==
    \E k \in 0..(Len(s) - Len(sub)) :
        \A j \in 1..Len(sub) : LowerChar(s[k + j]) = LowerChar(sub[j])

\* C35: containsAny(s, tokens) is true exactly when some token occurs in s,
\* letter case aside, as a contiguous substring (so it is false for the
\* empty s, the tokens being non-empty), and every record of the Indeed
\* and the Apify LinkedIn adapter has is_remote = containsAny(description,
\* {remote, work from home, wfh}).
C35_IsRemoteDerivation ==
    /\ probe.op = "containsAny" =>
          /\ probe.out <=> \E k \in DOMAIN probe.substrings :
                               Occurs(probe.substrings[k], probe.s)
          /\ probe.s = << >> => ~probe.out
    /\ (probe.op \in {"FetchIndeedJobs", "FetchApifyLinkedInJobs"} /\ probe.out.err = NoErr) =>
          \A i \in DOMAIN probe.out.jobs :
              probe.out.jobs[i].is_remote <=>
                  \E token \in { <<"r","e","m","o","t","e">>,
                                  <<"w","o","r","k"," ","f","r","o","m"," ","h","o","m","e">>,
                                  <<"w","f","h">> } :
                      Occurs(token, probe.body.items[i].description)

\* the Indeed adapter made two records: one is remote, by a description that
\* holds a token in another letter case, and the other is not
C35_Witness ==
    /\ probe.op = "FetchIndeedJobs" /\ probe.out.err = NoErr
    /\ Len(probe.out.jobs) = 2
    /\ probe.out.jobs[1].is_remote /\ ~probe.out.jobs[2].is_remote
    /\ ~containsAnyCaseSensitive(probe.body.items[1].description, remoteTokens)

(***************************************************************************)
(* Properties of the filters called on their own (specification           *)
(* SpecPure).                                                              *)
(***************************************************************************)
\* whitespace and punctuation
Boundary == {" ", ",", ".", ":", ";", "-", "/", "(", ")", "[", "]", "{", "}"}

\* the text holds the word go, in any letter case, with a boundary
\* character or an end of the text on each side
HasGoToken(text) ==
    \E i \in 1..(Len(text) - 1) :
        /\ LowerChar(text[i]) = "g" /\ LowerChar(text[i + 1]) = "o"
        /\ i = 1 \/ text[i - 1] \in Boundary
        /\ i + 1 = Len(text) \/ text[i + 2] \in Boundary

\* the text holds the letters of golang in a row, in any letter case
HasGolang(text) ==
    \E i \in 1..(Len(text) - 5) :
        \A k \in 0..5 : LowerChar(text[i + k]) = golang[k + 1]

\* C24: IsGoRelatedJob returns true only for a record whose title or
\* description holds golang or the token go between boundaries; a record
\* that holds the letters go only inside longer words is not relevant.
C24_StandaloneToken ==
    (probe.op = "IsGoRelatedJob" /\ probe.out) =>
        \/ HasGolang(probe.title) \/ HasGolang(probe.description)
        \/ HasGoToken(probe.title) \/ HasGoToken(probe.description)

\* C25: IsGoRelatedJob returns true for every record whose title or
\* description holds golang in any letter case.
C25_GolangRelevant ==
    (/\ probe.op = "IsGoRelatedJob"
     /\ HasGolang(probe.title) \/ HasGolang(probe.description)) => probe.out

\* a description with GoLang inside a longer text, under the title Java
\* Developer, was judged relevant
C25_Witness ==
    /\ probe.op = "IsGoRelatedJob" /\ probe.out
    /\ probe.title = JavaDeveloper
    /\ Contains(probe.description, <<"G","o","L","a","n","g">>)
    /\ ~HasGoToken(probe.description)

\* the lower-cased name holds a blocked term
HoldsBlockedTerm(companyName) ==
    \E term \in { <<"c","a","n","o","n","i","c","a","l">>,
                  <<"c","r","o","s","s","o","v","e","r">> } :
        \E i \in 0..(Len(companyName) - Len(term)) :
            \A k \in 1..Len(term) : LowerChar(companyName[i + k]) = term[k]

\* C26: IsBlockedCompany returns true exactly for the names that hold a
\* blocked term in any letter case, anywhere in the name.
C26_BlocklistSubstring ==
    probe.op = "IsBlockedCompany" =>
        (probe.out <=> HoldsBlockedTerm(probe.companyName))

\* Canonically Speaking Inc was judged blocked
C26_Witness ==
    /\ probe.op = "IsBlockedCompany" /\ probe.out
    /\ Len(probe.companyName) = 24
    /\ HasPrefix(probe.companyName, Canonical)

(***************************************************************************)
(* Properties of the HTMLCache (specification SpecCache).                  *)
(***************************************************************************)
\* the latest Set of key stored a value whose expiration time has not
\* passed at time t
Live(key, t) == key \in DOMAIN html.lastSet /\ t <= html.lastSet[key].expiration

\* C38: a Get of k returns (v, true) exactly when the most recent Set of k
\* stored v and its expiration time has not passed, and not-found
\* otherwise, whatever calls of Set, Get and Cleanup came before; a Cleanup
\* removes only items that have expired, and changes the result of no Get.
C38_CacheExpiry ==
    [][/\ (html'.n = html.n + 1 /\ html'.op = "Get") =>
            LET k == html'.got.key
            IN  /\ html'.got.found <=> Live(k, now)
                /\ html'.got.found => html'.got.value = html.lastSet[k].value
                /\ ~html'.got.found => html'.got.value = ""
       /\ (html'.n = html.n + 1 /\ html'.op = "Cleanup") =>
            /\ \A k \in DOMAIN html.items \ DOMAIN html'.items :
                  now > html.items[k].expiration
            /\ \A k \in DOMAIN html'.items :
                  k \in DOMAIN html.items /\ html'.items[k] = html.items[k]
            /\ \A k \in {"k1", "k2"} :
                  HTMLCacheGet(html'.items, k, now) = HTMLCacheGet(html.items, k, now)]_vars

\* both keys were set, a Cleanup removed the item of one of them, which had
\* expired, and the Get of the other returned its value
C38_Witness ==
    /\ html.op = "Get" /\ html.got.found
    /\ html.got.value = html.lastSet[html.got.key].value
    /\ \E k \in DOMAIN html.lastSet : k \notin DOMAIN html.items

(***************************************************************************)
(* Properties of EnhanceJobDescriptions (specification SpecGemini).        *)
(***************************************************************************)
\* the positions of the events that are calls of the API
Calls == { i \in DOMAIN gem.events : gem.events[i] # "sleep" }

\* what holds of the calls and delays of an invocation at every moment
RetryDiscipline ==
    /\ Cardinality(Calls) <= 3
    /\ \A i \in DOMAIN gem.events :
          /\ gem.events[i] = "ok" => i = Len(gem.events)
          /\ gem.events[i] = "sleep" =>
                /\ i > 1 /\ gem.events[i - 1] = "fail"
                /\ Cardinality({ j \in Calls : j < i }) < 3
          /\ (gem.events[i] = "fail" /\ i < Len(gem.events)) => gem.events[i + 1] = "sleep"
    /\ gem.pc = "done" =>
          /\ gem.events # << >> => gem.events[Len(gem.events)] # "sleep"
          /\ gem.err = ErrAllAttempts <=>
                (Cardinality(Calls) = 3 /\ \A i \in Calls : gem.events[i] = "fail")

\* C39: an invocation of EnhanceJobDescriptions calls the Gemini API at
\* most 3 times and not again after a call that succeeded; a delay follows
\* every failed attempt but the third and nothing else; it returns the
\* error of all attempts exactly when three calls were made and all
\* failed; and every invocation returns.
C39_BoundedRetry ==
    /\ []RetryDiscipline
    /\ (gem.pc \in {"attempt", "sleep", "parse"}) ~> (gem.pc = "done")

\* three attempts failed, with a delay after the first and the second, and
\* the invocation returned the error of all attempts
C39_Witness ==
    /\ gem.pc = "done" /\ gem.err = ErrAllAttempts
    /\ gem.events = <<"fail", "sleep", "fail", "sleep", "fail">>

====
